---- MODULE Spec2Model ----
(***************************************************************************)
(* A model of the content-extraction engine of magic-content-extractor.    *)
(*                                                                         *)
(* The repository holds several near-duplicate generations of the same     *)
(* classes.  Each generation that a property depends on is modelled under  *)
(* its own name, and the module holds one specification per component:     *)
(*                                                                         *)
(*   SpecSimilarity  calculateSimilarity (word-overlap and edit-distance)  *)
(*   SpecDispatch    the three URL -> variant dispatchers                  *)
(*   SpecSelector    the Content Selector of the three BaseExtractors      *)
(*   Spec            extract() calls on the extractors the factory caches  *)
(*                                                                         *)
(* Every specification assigns all variables; the variables of the other   *)
(* components stay at their idle value.                                    *)
(***************************************************************************)
EXTENDS Integers, Sequences, FiniteSets, TLC

VARIABLES
    sim,         \* one evaluation of calculateSimilarity in both argument orders
    disp,        \* one variant dispatch of a URL
    sel,         \* one run of the Content Selector over a document
    extractors,  \* ExtractorFactory.extractors: the class cached for each type
    ext,         \* per cached instance: this.$ and this.droppedNodes
    calls,       \* the extract() calls: position, arguments, result
    lcs,         \* one evaluation of a longest-common-substring function
    dens,        \* one evaluation of a link density
    tlen,        \* one evaluation of a text-length function
    cln,         \* one document going through the Document Cleaner
    ttl,         \* one run of a Title Resolver
    frm,         \* one forum page going through reorganizeContent
    tbl,         \* one table going through table normalization
    dom          \* one document or content subtree going through one DOM pass

vars == <<sim, disp, sel, extractors, ext, calls, lcs, dens, tlen, cln, ttl, frm, tbl, dom>>

\* the variables of the components added after the extractor sessions
units == <<lcs, dens, tlen, cln, ttl, frm, tbl, dom>>

Off == [pc |-> "off"]

\* every component but u is idle
IdleBut(u) ==
    /\ IF u = "lcs" THEN TRUE ELSE lcs = Off
    /\ IF u = "dens" THEN TRUE ELSE dens = Off
    /\ IF u = "tlen" THEN TRUE ELSE tlen = Off
    /\ IF u = "cln" THEN TRUE ELSE cln = Off
    /\ IF u = "ttl" THEN TRUE ELSE ttl = Off
    /\ IF u = "frm" THEN TRUE ELSE frm = Off
    /\ IF u = "tbl" THEN TRUE ELSE tbl = Off
    /\ IF u = "dom" THEN TRUE ELSE dom = Off

\* an action of component u leaves the other components alone
Only(u) ==
    /\ IF u = "lcs" THEN TRUE ELSE UNCHANGED lcs
    /\ IF u = "dens" THEN TRUE ELSE UNCHANGED dens
    /\ IF u = "tlen" THEN TRUE ELSE UNCHANGED tlen
    /\ IF u = "cln" THEN TRUE ELSE UNCHANGED cln
    /\ IF u = "ttl" THEN TRUE ELSE UNCHANGED ttl
    /\ IF u = "frm" THEN TRUE ELSE UNCHANGED frm
    /\ IF u = "tbl" THEN TRUE ELSE UNCHANGED tbl
    /\ IF u = "dom" THEN TRUE ELSE UNCHANGED dom

SimIdle == [pc |-> "off"]
DispIdle == [pc |-> "off"]
SelIdle == [pc |-> "off"]

Range(s) == {s[i] : i \in 1..Len(s)}

Max(a, b) == IF a >= b THEN a ELSE b

Min(a, b) == IF a <= b THEN a ELSE b

(***************************************************************************)
(* Text Metrics: string similarity.                                        *)
(* Strings are sequences of characters; " " is the only whitespace.        *)
(***************************************************************************)
MaxStrLen == 3

Chars == {"a", "A", " "}

Strings == UNION {[1..n -> Chars] : n \in 0..MaxStrLen}

\* String.prototype.toLowerCase
toLowerCase(s) == [i \in 1..Len(s) |-> IF s[i] = "A" THEN "a" ELSE s[i]]

\* index of the first non-whitespace character at or after i (Len(s)+1 if none)
RECURSIVE SkipWhitespace(_, _)
SkipWhitespace(s, i) ==
    IF i > Len(s) \/ s[i] # " " THEN i ELSE SkipWhitespace(s, i + 1)

\* String.prototype.split(/\s+/): every maximal run of whitespace is one
\* separator, so leading or trailing whitespace yields an empty word
RECURSIVE SplitFrom(_, _, _)
SplitFrom(s, i, cur) ==
    IF i > Len(s) THEN <<cur>>
    ELSE IF s[i] = " " THEN <<cur>> \o SplitFrom(s, SkipWhitespace(s, i), <<>>)
    ELSE SplitFrom(s, i + 1, Append(cur, s[i]))

split(s) == SplitFrom(s, 1, <<>>)

\* a similarity value is the exact fraction <<numerator, denominator>>
One == <<1, 1>>

Zero == <<0, 1>>

FracEq(x, y) == x[1] * y[2] = y[1] * x[2]

FracLeq(x, y) == x[1] * y[2] <= y[1] * x[2]

\* utils/similarity.ts: Dice coefficient over the lower-cased words
calculateSimilarityDice(str1, str2) ==
    IF str1 = str2 THEN One
    ELSE IF str1 = <<>> \/ str2 = <<>> THEN Zero
    ELSE LET words1 == split(toLowerCase(str1))
             words2 == split(toLowerCase(str2))
             commonWords == {i \in 1..Len(words1) : words1[i] \in Range(words2)}
         IN  <<2 * Cardinality(commonWords), Len(words1) + Len(words2)>>

\* the edit-distance matrix entry matrix[i][j]
RECURSIVE editDistance(_, _, _, _)
editDistance(str1, str2, i, j) ==
    IF i = 0 THEN j
    ELSE IF j = 0 THEN i
    ELSE IF str1[i] = str2[j] THEN editDistance(str1, str2, i - 1, j - 1)
    ELSE 1 + Min(editDistance(str1, str2, i - 1, j),
                 Min(editDistance(str1, str2, i, j - 1),
                     editDistance(str1, str2, i - 1, j - 1)))

\* the second calculateSimilarity: 1 - Levenshtein distance / longer length
calculateSimilarityLevenshtein(str1, str2) ==
    IF str1 = <<>> \/ str2 = <<>> THEN Zero
    ELSE IF str1 = str2 THEN One
    ELSE LET maxLen == Max(Len(str1), Len(str2))
             distance == editDistance(str1, str2, Len(str1), Len(str2))
         IN  <<maxLen - distance, maxLen>>

SimilarityImpls == {"dice", "levenshtein"}

calculateSimilarity(impl, str1, str2) ==
    IF impl = "dice" THEN calculateSimilarityDice(str1, str2)
    ELSE calculateSimilarityLevenshtein(str1, str2)

SimInit ==
    /\ sim \in {[pc |-> "start", impl |-> m, a |-> x, b |-> y, ab |-> Zero, ba |-> Zero] :
                    m \in SimilarityImpls, x \in Strings, y \in Strings}
    /\ disp = DispIdle
    /\ sel = SelIdle
    /\ extractors = {}
    /\ ext = <<>>
    /\ calls = <<>>
    /\ IdleBut("none")

\* similarity(a, b) is evaluated
SimForward ==
    /\ sim.pc = "start"
    /\ sim' = [sim EXCEPT !.pc = "forward",
                          !.ab = calculateSimilarity(sim.impl, sim.a, sim.b)]
    /\ UNCHANGED <<disp, sel, extractors, ext, calls, units>>

\* similarity(b, a) is evaluated
SimBackward ==
    /\ sim.pc = "forward"
    /\ sim' = [sim EXCEPT !.pc = "done",
                          !.ba = calculateSimilarity(sim.impl, sim.b, sim.a)]
    /\ UNCHANGED <<disp, sel, extractors, ext, calls, units>>

SimNext == SimForward \/ SimBackward

SpecSimilarity == SimInit /\ [][SimNext]_vars

\* C9: similarity is symmetric: similarity(a, b) = similarity(b, a) for all
\* strings, also when a word occurs more than once in a string.
C9_SimilaritySymmetric ==
    sim.pc = "done" => FracEq(sim.ab, sim.ba)

\* C10: similarity(a, b) lies in [0,1], is 1 exactly when a and b are the same
\* string, and is 0 whenever either argument is the empty string.  For the pair
\* of two empty strings the two rules disagree; either value is accepted there.
C10_SimilarityRange ==
    sim.pc \in {"forward", "done"} =>
        /\ FracLeq(Zero, sim.ab) /\ FracLeq(sim.ab, One)
        /\ (sim.a # <<>> \/ sim.b # <<>>) => (FracEq(sim.ab, One) <=> (sim.a = sim.b))
        /\ (sim.a = <<>> \/ sim.b = <<>>) /\ sim.a # sim.b => FracEq(sim.ab, Zero)

(***************************************************************************)
(* Variant dispatch.  A URL is the set of the tested substrings it         *)
(* contains; the fetched page is whether it holds a forum-feature element. *)
(***************************************************************************)
UrlMarkers ==
    {"mp.weixin.qq.com", "forum", "bbs", "thread", "topic", "tid=", "pid=", "fid=",
     "/search/"}

Urls == SUBSET UrlMarkers

\* String.prototype.includes
includes(url, marker) == marker \in url

\* WeixinExtractor.canHandle
WeixinCanHandle(url) == includes(url, "mp.weixin.qq.com")

\* BaseExtractor.canHandle, which ForumExtractor inherits
BaseCanHandle(url) == TRUE

\* ArticleExtractor.canHandle: no non-article path pattern matches
ArticleCanHandle(url) == ~includes(url, "/search/")

\* ExtractorFactory.getExtractorByUrl of the type-keyed factory
getExtractorByUrl(url) ==
    IF includes(url, "mp.weixin.qq.com") THEN "weixin"
    ELSE IF includes(url, "forum") \/ includes(url, "bbs") \/ includes(url, "thread")
         THEN "forum"
    ELSE "article"

\* ExtractorFactory.getExtractor(url) of the URL-keyed factory: the first of
\* [Weixin, Forum, Article] whose canHandle accepts, else the default extractor
getExtractorForUrl(url) ==
    IF WeixinCanHandle(url) THEN "weixin"
    ELSE IF BaseCanHandle(url) THEN "forum"
    ELSE IF ArticleCanHandle(url) THEN "article"
    ELSE "base"

\* detectPageType of the request handler
detectPageType(url, htmlForum) ==
    IF includes(url, "mp.weixin.qq.com") THEN "weixin"
    ELSE IF htmlForum THEN "forum"
    ELSE IF includes(url, "forum") \/ includes(url, "bbs") \/ includes(url, "thread")
            \/ includes(url, "topic")
         THEN "forum"
    ELSE "article"

DispInit ==
    /\ disp \in {[pc |-> "start", url |-> u, htmlForum |-> h, by |-> "none",
                  variant |-> "none"] : u \in Urls, h \in BOOLEAN}
    /\ sim = SimIdle
    /\ sel = SelIdle
    /\ extractors = {}
    /\ ext = <<>>
    /\ calls = <<>>
    /\ IdleBut("none")

GetExtractorByUrl ==
    /\ disp.pc = "start"
    /\ disp' = [disp EXCEPT !.pc = "done", !.by = "getExtractorByUrl",
                            !.variant = getExtractorByUrl(disp.url)]
    /\ UNCHANGED <<sim, sel, extractors, ext, calls, units>>

GetExtractorForUrl ==
    /\ disp.pc = "start"
    /\ disp' = [disp EXCEPT !.pc = "done", !.by = "getExtractor",
                            !.variant = getExtractorForUrl(disp.url)]
    /\ UNCHANGED <<sim, sel, extractors, ext, calls, units>>

DetectPageType ==
    /\ disp.pc = "start"
    /\ disp' = [disp EXCEPT !.pc = "done", !.by = "detectPageType",
                            !.variant = detectPageType(disp.url, disp.htmlForum)]
    /\ UNCHANGED <<sim, sel, extractors, ext, calls, units>>

DispNext == GetExtractorByUrl \/ GetExtractorForUrl \/ DetectPageType

SpecDispatch == DispInit /\ [][DispNext]_vars

\* the variant the dispatch contract names for a URL
ContractVariant(url) ==
    IF "mp.weixin.qq.com" \in url THEN "weixin"
    ELSE IF url \cap {"forum", "bbs", "thread", "topic", "tid=", "pid=", "fid="} # {}
         THEN "forum"
    ELSE "article"

\* C6: dispatch is a function of the URL alone: a URL containing
\* mp.weixin.qq.com selects weixin (also when it matches a forum pattern), else
\* one containing forum, bbs, thread, topic, tid=, pid= or fid= selects forum,
\* and every other URL selects article.
C6_DispatchByUrl ==
    disp.pc = "done" => disp.variant = ContractVariant(disp.url)

(***************************************************************************)
(* extract() calls on the extractors the type-keyed factory caches.        *)
(*                                                                         *)
(* A page is identified by id; base says whether it has a <base href>      *)
(* starting with http, area whether it has the #img-content element, and   *)
(* noise whether the cleaner drops a noise element from it.  Titles,       *)
(* contents and metadata are named by the id of the page they are read     *)
(* from, URLs by <<"url", id>> (the page's own address) or <<"base", id>>   *)
(* (the href of the page's <base>).                                        *)
(***************************************************************************)
MaxDocs == 2

MaxCalls == 2

DocIds == 1..MaxDocs

Calls == 1..MaxCalls

Pages == [id : DocIds, base : BOOLEAN, area : BOOLEAN, noise : BOOLEAN]

\* this.$ before the first cheerio.load: the field is declared, never initialised
NoDoc == [id |-> 0, base |-> FALSE, area |-> FALSE, noise |-> FALSE]

Variants == {"article", "forum", "weixin", "base"}

\* the class declarations of each variant that define their own extract
ClassesOf(type) ==
    CASE type = "article" -> {"ArticleExtractor", "ArticleExtractorMeta"}
      [] type = "forum" -> {"ForumExtractor"}
      [] type = "weixin" -> {"WeixinExtractor", "WeixinExtractorMeta"}
      [] OTHER -> {"BaseExtractor"}

\* BaseExtractor constructor: this.$ unset, this.droppedNodes = new Set()
NewExtractor == [dollar |-> NoDoc, droppedNodes |-> {}]

IdleCall ==
    [pc |-> "idle", variant |-> "none", doc |-> NoDoc, droppedAtStart |-> {},
     overlapped |-> FALSE,
     result |-> [title |-> 0, content |-> 0, url |-> <<"url", 0>>, metadata |-> 0]]

Init ==
    /\ extractors = [v \in Variants |-> "none"]
    /\ ext = [v \in Variants |-> NewExtractor]
    /\ calls = [c \in Calls |-> IdleCall]
    /\ sim = SimIdle
    /\ disp = DispIdle
    /\ sel = SelIdle
    /\ IdleBut("none")

\* ExtractorFactory.getExtractor(type): a cached instance is returned as is,
\* otherwise one is constructed and cached ("base": the default extractor that
\* ExtractorFactory.init constructs)
GetExtractor(type, cls) ==
    /\ extractors[type] = "none"
    /\ cls \in ClassesOf(type)
    /\ extractors' = [extractors EXCEPT ![type] = cls]
    /\ ext' = [ext EXCEPT ![type] = NewExtractor]
    /\ UNCHANGED <<calls, sim, disp, sel, units>>

\* BaseExtractor.cleanDocument: removeNode records the dropped noise nodes
cleanDocument(e, d) ==
    [e EXCEPT !.droppedNodes = IF d.noise THEN @ \cup {d.id} ELSE @]

\* BaseExtractor.extract(html, url): load, clean, title, main content,
\* post-process; the result has no metadata
BaseExtract(e, d, url) ==
    [ext |-> cleanDocument([e EXCEPT !.dollar = d], d),
     result |-> [title |-> d.id, content |-> d.id, url |-> url, metadata |-> 0]]

\* getBaseUrl / the base_url lines: the href of <base> in tree $, else url
getBaseUrl(tree, url) == IF tree.base THEN <<"base", tree.id>> ELSE url

Overlap(c) == \E o \in Calls \ {c} : calls[o].pc = "awaiting"

Begin(c, v, d) ==
    [calls[c] EXCEPT !.variant = v, !.doc = d,
                     !.droppedAtStart = ext[v].droppedNodes,
                     !.overlapped = Overlap(c)]

MarkOverlap(cs, c) ==
    [o \in Calls |-> IF o # c /\ cs[o].pc = "awaiting"
                     THEN [cs[o] EXCEPT !.overlapped = TRUE] ELSE cs[o]]

\* the synchronous part of extract(html, url) of the instance cached for v,
\* up to its return, its throw or its first await
ExtractStart(c, v, d) ==
    LET cls == extractors[v]
        e == ext[v]
        url == <<"url", d.id>>
        b == Begin(c, v, d)
    IN
    /\ calls[c].pc = "idle"
    /\ cls # "none"
    /\ CASE cls = "BaseExtractor" ->
            LET r == BaseExtract(e, d, url) IN
            /\ ext' = [ext EXCEPT ![v] = r.ext]
            /\ calls' = MarkOverlap([calls EXCEPT ![c] =
                            [b EXCEPT !.pc = "done", !.result = r.result]], c)
         [] cls = "ArticleExtractor" ->
            \* this.$ is initialised first, so getBaseUrl reads the call's own tree
            LET r == BaseExtract(e, d, getBaseUrl(d, url)) IN
            /\ ext' = [ext EXCEPT ![v] = r.ext]
            /\ calls' = MarkOverlap([calls EXCEPT ![c] =
                            [b EXCEPT !.pc = "done", !.result = r.result]], c)
         [] cls \in {"ForumExtractor", "ArticleExtractorMeta"} ->
            \* const $ = this.$; $('base[href]') runs before super.extract loads
            \* the page: on an unset this.$ the call is a TypeError, otherwise it
            \* reads (and handleSpecialSites edits) the tree of the previous call
            IF e.dollar = NoDoc
            THEN /\ calls' = MarkOverlap([calls EXCEPT ![c] = [b EXCEPT !.pc = "thrown"]], c)
                 /\ UNCHANGED ext
            ELSE LET r == BaseExtract(e, d, getBaseUrl(e.dollar, url)) IN
                 /\ ext' = [ext EXCEPT ![v] = r.ext]
                 /\ calls' = MarkOverlap([calls EXCEPT ![c] =
                                 [b EXCEPT !.pc = "awaiting", !.result = r.result]], c)
         [] cls = "WeixinExtractor" ->
            \* the page is loaded, then a missing content area throws
            IF ~d.area
            THEN /\ ext' = [ext EXCEPT ![v] = [e EXCEPT !.dollar = d]]
                 /\ calls' = MarkOverlap([calls EXCEPT ![c] = [b EXCEPT !.pc = "thrown"]], c)
            ELSE LET r == BaseExtract(e, d, url) IN
                 /\ ext' = [ext EXCEPT ![v] = r.ext]
                 /\ calls' = MarkOverlap([calls EXCEPT ![c] =
                                 [b EXCEPT !.pc = "done",
                                           !.result = [r.result EXCEPT !.metadata = d.id]]], c)
         [] cls = "WeixinExtractorMeta" ->
            LET r == BaseExtract(e, d, url) IN
            /\ ext' = [ext EXCEPT ![v] = r.ext]
            /\ calls' = MarkOverlap([calls EXCEPT ![c] =
                            [b EXCEPT !.pc = "awaiting", !.result = r.result]], c)
    /\ UNCHANGED <<extractors, sim, disp, sel, units>>

\* the continuation after `await super.extract(...)`: the variant's metadata
\* (author, publishTime, counts) is read from this.$ as it is now
ExtractResume(c) ==
    /\ calls[c].pc = "awaiting"
    /\ calls' = [calls EXCEPT ![c].pc = "done",
                              ![c].result.metadata = ext[calls[c].variant].dollar.id]
    /\ UNCHANGED <<extractors, ext, sim, disp, sel, units>>

Next ==
    \/ \E type \in Variants : \E cls \in ClassesOf(type) : GetExtractor(type, cls)
    \/ \E c \in Calls : \E v \in Variants : \E d \in Pages : ExtractStart(c, v, d)
    \/ \E c \in Calls : ExtractResume(c)

Spec == Init /\ [][Next]_vars

Started(c) == calls[c].pc # "idle"

Done(c) == calls[c].pc = "done"

\* every field of the result comes from the page the call was given
OwnResult(c) ==
    LET r == calls[c].result
        id == calls[c].doc.id
    IN  /\ r.title = id
        /\ r.content = id
        /\ r.url[2] = id
        /\ r.metadata \in {0, id}

\* C1: extract terminates with a non-null ExtractResult for every variant
\* extractor and every page: no call throws, not the first call on a freshly
\* constructed extractor and not a weixin page without a content-area element.
C1_ExtractNeverThrows ==
    \A c \in Calls : calls[c].pc # "thrown"

\* C7: no extraction state persists between calls: the DroppedNodeSet is empty
\* when a call starts, and the result of a call that ran with no other call in
\* flight is made of its own page only, whatever calls came before.
C7_NoStateBetweenCalls ==
    \A c \in Calls :
        /\ Started(c) => calls[c].droppedAtStart = {}
        /\ Done(c) /\ ~calls[c].overlapped => OwnResult(c)

\* C8: with two calls in flight on the extractor cached for a variant, every
\* field of each result, the metadata computed after the base extraction
\* resolves included, is derived from that call's own page.
C8_CallsDoNotShareDocument ==
    \A c \in Calls : Done(c) => OwnResult(c)

(***************************************************************************)
(* Content Selector.                                                       *)
(*                                                                         *)
(* A document is the sequence of the element children of <body>, in        *)
(* document order, as it stands after cleanDocument.  An element has a     *)
(* tag, a class list, text of its own, and leaf children: links, images,   *)
(* paragraphs and headings.  All text is a run of CJK ideographs with no   *)
(* whitespace, so lengths are numbers of characters.                       *)
(***************************************************************************)
MaxNodes == 3

Leaf(tag, len) ==
    [tag |-> tag, cls |-> <<>>, text |-> len, links |-> <<>>, imgs |-> 0,
     ps |-> <<>>, hs |-> <<>>]

Element(tag, cls, text, links, imgs, ps, hs) ==
    [tag |-> tag, cls |-> cls, text |-> text, links |-> links, imgs |-> imgs,
     ps |-> ps, hs |-> hs]

\* the elements the documents are assembled from
NodeKinds ==
    { Element("div", <<>>, 18, <<12>>, 0, <<>>, <<>>),
      Element("article", <<"content", "text">>, 12, <<9, 9>>, 0, <<>>, <<>>),
      Element("div", <<"content">>, 1000, <<>>, 4, <<>>, <<>>),
      Element("article", <<"article", "content", "post", "entry">>, 1, <<>>, 0, <<>>, <<>>),
      Element("div", <<"thread-content">>, 1000, <<>>, 0, <<60, 60>>, <<4>>),
      Element("div", <<"thread-content">>, 10, <<>>, 1, <<>>, <<>>),
      Element("div", <<"post">>, 1000, <<>>, 4, <<>>, <<>>),
      Element("nav", <<>>, 1000, <<>>, 0, <<>>, <<>>),
      Element("section", <<"content", "post">>, 40, <<>>, 0, <<>>, <<>>),
      Element("div", <<"rich_media_content">>, 1000, <<>>, 4, <<>>, <<>>) }

Documents == UNION {[1..n -> NodeKinds] : n \in 0..MaxNodes}

RECURSIVE SumSeq(_)
SumSeq(s) == IF s = <<>> THEN 0 ELSE Head(s) + SumSeq(Tail(s))

\* the child elements of n, in document order
Children(n) ==
    [i \in 1..Len(n.links) |-> Leaf("a", n.links[i])]
    \o [i \in 1..n.imgs |-> Leaf("img", 0)]
    \o [i \in 1..Len(n.ps) |-> Leaf("p", n.ps[i])]
    \o [i \in 1..Len(n.hs) |-> Leaf("h2", n.hs[i])]

RECURSIVE Elements(_)
\* $('body *'): every element of the document, in document order
Elements(doc) ==
    IF doc = <<>> THEN <<>>
    ELSE <<Head(doc)>> \o Children(Head(doc)) \o Elements(Tail(doc))

\* $elem.text().trim().length
textChars(n) == n.text + SumSeq(n.links) + SumSeq(n.ps) + SumSeq(n.hs)

\* $elem.find('a').get(0): the text length of the first link only
firstLinkChars(n) == IF n.links = <<>> THEN 0 ELSE n.links[1]

\* $elem.find('a').text().length
allLinkChars(n) == SumSeq(n.links)

\* $elem.html().length: the text and the markup of the children,
\* <a href="#">..</a>, <img src="i">, <p>..</p>, <h2>..</h2>
htmlLength(n) ==
    textChars(n) + 16 * Len(n.links) + 13 * n.imgs + 7 * Len(n.ps) + 9 * Len(n.hs)

\* calculateTextLength(text) of utils/extractor.ts: the whitespace-delimited
\* pieces (one, for a non-empty text without whitespace) plus the ideographs
calculateTextLength(chars) == IF chars = 0 THEN 0 ELSE 1 + chars

\* keyword substrings of the class tokens, for the regular expressions and
\* the [class*=...] selectors that test the class attribute
Substrings(token) ==
    CASE token = "content" -> {"content"}
      [] token = "text" -> {"text"}
      [] token = "post" -> {"post"}
      [] token = "entry" -> {"entry"}
      [] token = "article" -> {"article"}
      [] token = "thread-content" -> {"content", "ad-"}
      [] token = "rich_media_content" -> {"content"}
      [] OTHER -> {}

\* pattern.test(class attribute) for an alternation of keywords
TestClass(n, keywords) ==
    \E i \in 1..Len(n.cls) : Substrings(n.cls[i]) \cap keywords # {}

\* the class selectors of NOISE_SELECTORS
NoiseClasses ==
    {"comment", "comments", "comment-list", "comment-content", "header",
     "footer", "sidebar", "widget", "navigation", "nav", "navbar", "menu",
     "breadcrumb", "advertisement", "ad", "ads", "adsense", "social", "share",
     "sharing", "social-share", "related", "recommended", "popular",
     "trending", "author-info", "author-bio", "author-meta", "meta",
     "metadata", "post-meta", "article-meta", "tags", "categories",
     "taxonomy", "subscribe", "newsletter", "notification", "copyright",
     "license", "modal", "overlay", "popup", "hidden"}

\* an element that some selector of NOISE_SELECTORS matches
MatchesNoise(n) ==
    \/ Range(n.cls) \cap NoiseClasses # {}
    \/ TestClass(n, {"ad-"})

\* BaseExtractor.shouldKeepNode
shouldKeepNode(opts, n) ==
    \/ n.imgs > 0
    \/ /\ textChars(n) > opts.minTextLength
       /\ 2 * allLinkChars(n) < textChars(n)

Versions == {"BaseExtractor.ts", "TitleExtractor.ts", "part_001"}

\* removeNoiseNodes leaves the element in the document: it matches no noise
\* selector, or shouldKeepNode holds, or removeNode declines to remove it
\* (the removeNode of part_001 always removes)
SurvivesCleaning(ver, opts, n) ==
    \/ ~MatchesNoise(n)
    \/ shouldKeepNode(opts, n)
    \/ /\ ver # "part_001"
       /\ textChars(n) >= opts.minTextLength
       /\ 2 * firstLinkChars(n) <= textChars(n)

SelVariants == {"base", "forum", "weixin"}

\* the options the constructors set; only BaseExtractor takes the caller's
OptionsOf(variant) ==
    CASE variant = "forum" ->
            {[minTextLength |-> 50, retryLength |-> 250, minScore |-> 15]}
      [] variant = "weixin" ->
            {[minTextLength |-> 100, retryLength |-> 250, minScore |-> 20]}
      [] OTHER ->
            {[minTextLength |-> 25, retryLength |-> 250, minScore |-> 20],
             [minTextLength |-> 50, retryLength |-> 25, minScore |-> 20]}

CONTENT_SELECTORS ==
    << <<"tag", "article">>, <<"class", "post">>, <<"class", "entry">>,
       <<"class", "post-text">>, <<"class", "post-body">>,
       <<"class", "post-content">>, <<"class", "article-text">>,
       <<"class", "article-body">>, <<"class", "article-content">>,
       <<"attr", "itemprop=articleBody">>, <<"class", "entry-content">>,
       <<"class", "page-content">>, <<"class", "text-content">>,
       <<"class", "blog-post">>, <<"class", "blog-entry">>,
       <<"class", "blog-content">>, <<"class", "news-content">>,
       <<"class", "news-text">>, <<"class", "news-article">>,
       <<"tag", "main">>, <<"id", "main-content">>,
       <<"class", "main-content">>, <<"class", "content-body">>,
       <<"class", "content-text">>, <<"attr", "role=main">>,
       <<"attr", "itemprop=text">>, <<"attr", "itemprop=description">>,
       <<"attr", "property=og:description">> >>

getCustomSelectors(variant) ==
    CASE variant = "forum" ->
            << <<"class", "thread-content">>, <<"class", "post-content">>,
               <<"class", "topic-content">>, <<"class", "forum-post">>,
               <<"class", "forum-content">>, <<"class", "message-content">>,
               <<"class", "bbcode-content">>, <<"class", "first-post">>,
               <<"class", "main-post">>, <<"class", "original-post">>,
               <<"class", "thread-first">>, <<"class", "reply-content">>,
               <<"class", "comment-content">>, <<"class", "response-content">>,
               <<"id", "thread-content">>, <<"id", "post-content">>,
               <<"attr", "itemprop=articleBody">> >>
      [] variant = "weixin" ->
            << <<"id", "js_content">>, <<"class", "rich_media_content">>,
               <<"class", "rich_media_area_primary">>,
               <<"class", "rich_media_area_primary_inner">>,
               <<"id", "content_html">>, <<"class", "article-content">> >>
      [] OTHER -> <<>>

\* the elements carry a tag and classes, no id and no other attribute
Matches(selector, n) ==
    CASE selector[1] = "tag" -> n.tag = selector[2]
      [] selector[1] = "class" -> selector[2] \in Range(n.cls)
      [] OTHER -> FALSE

\* this.$(selector).get(0): the index of the first match in document order, or 0
FirstMatch(selector, els) ==
    LET hits == {i \in 1..Len(els) : Matches(selector, els[i])}
    IN  IF hits = {} THEN 0 ELSE CHOOSE i \in hits : \A j \in hits : i <= j

RECURSIVE GCD(_, _)
GCD(a, b) == IF b = 0 THEN a ELSE GCD(b, a % b)

Abs(x) == IF x < 0 THEN 0 - x ELSE x

\* a fraction <<numerator, denominator>> in lowest terms, denominator positive
Frac(n, d) ==
    LET g == GCD(Abs(n), d) IN <<n \div g, d \div g>>

FracAdd(x, y) == Frac(x[1] * y[2] + y[1] * x[2], x[2] * y[2])

FracMul(x, y) == Frac(x[1] * y[1], x[2] * y[2])

FracLess(x, y) == x[1] * y[2] < y[1] * x[2]

\* textLength || 1
OrOne(x) == IF x = 0 THEN 1 ELSE x

TAG_WEIGHTS(tag) ==
    CASE tag = "article" -> 10
      [] tag = "main" -> 8
      [] tag = "section" -> 6
      [] tag = "div" -> 4
      [] tag \in {"p", "pre", "code"} -> 3
      [] tag \in {"blockquote", "figure", "table"} -> 2
      [] OTHER -> 0

POSITIVE_CLASS_WEIGHTS(token) ==
    CASE token \in {"article", "content"} -> 8
      [] token \in {"post", "entry"} -> 6
      [] token \in {"text", "body"} -> 4
      [] OTHER -> 0

NEGATIVE_CLASS_WEIGHTS(token) ==
    CASE token \in {"sidebar", "advertisement", "ad"} -> 0 - 8
      [] token \in {"comment", "nav", "footer"} -> 0 - 6
      [] token = "header" -> 0 - 4
      [] OTHER -> 0

RECURSIVE ClassWeights(_)
ClassWeights(cls) ==
    IF cls = <<>> THEN 0
    ELSE POSITIVE_CLASS_WEIGHTS(Head(cls)) + NEGATIVE_CLASS_WEIGHTS(Head(cls))
         + ClassWeights(Tail(cls))

\* BaseExtractor.calculateNodeScore of TitleExtractor.ts
calculateNodeScore(n) ==
    LET textLength == textChars(n)
        linkLength == firstLinkChars(n)
    IN  TAG_WEIGHTS(n.tag) + ClassWeights(n.cls)
        + Min(textLength \div 100, 10)
        - (IF 2 * linkLength > OrOne(textLength)
           THEN (10 * linkLength) \div OrOne(textLength) ELSE 0)
        + Min(2 * n.imgs, 8)
        + Min(Len(n.ps), 5)
        + Min(2 * Len(n.hs), 6)

\* isValidContent of BaseExtractor.ts
isValidContentA(opts, n) ==
    /\ n.tag \notin {"nav", "header", "footer", "aside"}
    /\ textChars(n) >= opts.minTextLength
    /\ ~(2 * firstLinkChars(n) > textChars(n))

\* isValidContent of the BaseExtractor of TitleExtractor.ts
isValidContentB(opts, n) ==
    /\ n.tag \notin {"nav", "header", "footer", "aside", "style", "script", "meta", "link"}
    /\ calculateNodeScore(n) >= opts.minScore
    /\ textChars(n) >= opts.minTextLength
    /\ ~(2 * firstLinkChars(n) > textChars(n))

\* isValidContent of the BaseExtractor of part_001
isValidContentC(opts, n) ==
    LET textLength == calculateTextLength(textChars(n))
        linkLength == calculateTextLength(allLinkChars(n))
    IN  /\ n.tag \notin {"nav", "aside", "footer", "header"}
        /\ textLength >= opts.minTextLength
        /\ ~(2 * linkLength > OrOne(textLength))
        /\ ~(textLength < 100 * OrOne(n.imgs) /\ textLength < 200)

isValidContent(ver, opts, n) ==
    CASE ver = "BaseExtractor.ts" -> isValidContentA(opts, n)
      [] ver = "TitleExtractor.ts" -> isValidContentB(opts, n)
      [] OTHER -> isValidContentC(opts, n)

RECURSIVE ParagraphScore(_)
\* +2 for each paragraph of more than 50 characters (none holds punctuation)
ParagraphScore(ps) ==
    IF ps = <<>> THEN 0
    ELSE (IF Head(ps) > 50 THEN 2 ELSE 0) + ParagraphScore(Tail(ps))

\* calculateContentScore of TitleExtractor.ts, for a child of <body> (two
\* ancestors); the elements hold no table, list or code element, and their
\* inner HTML holds none of the six keywords
calculateContentScoreB(n) ==
    LET textLength == textChars(n)
        score ==
            FracAdd(FracAdd(
                Frac(calculateNodeScore(n) + Min(ParagraphScore(n.ps), 30)
                     + (IF n.imgs > 0 THEN 5 ELSE 0) - 2, 1),
                Frac(10 * textLength, OrOne(htmlLength(n)))),
                Frac(0 - 20 * allLinkChars(n), OrOne(textLength)))
    IN  IF FracLess(score, Zero) THEN Zero ELSE score

\* scoreElement of utils/extractor.ts (the version part_001 imports)
scoreElement(n) ==
    LET tagScore ==
            CASE n.tag = "article" -> 30
              [] n.tag = "section" -> 25
              [] n.tag = "main" -> 20
              [] n.tag = "div" -> 5
              [] n.tag \in {"p", "pre", "blockquote", "ol", "ul"} -> 3
              [] n.tag = "td" -> 0 - 3
              [] n.tag = "form" -> 0 - 10
              [] n.tag = "li" -> 1
              [] OTHER -> 0
        classScore ==
            (IF TestClass(n, {"article", "content", "post", "text", "body"}) THEN 25 ELSE 0)
            + (IF TestClass(n, {"main", "primary"}) THEN 20 ELSE 0)
            + (IF TestClass(n, {"entry", "story", "blog"}) THEN 15 ELSE 0)
            - (IF TestClass(n, {"comment", "meta", "footer", "footnote"}) THEN 20 ELSE 0)
            - (IF TestClass(n, {"sidebar", "widget", "share", "social", "nav", "menu"}) THEN 15 ELSE 0)
            - (IF TestClass(n, {"advertisement", "banner", "ad-"}) THEN 30 ELSE 0)
        textLength == calculateTextLength(textChars(n))
        beforeLinks == tagScore + classScore + Min(textLength \div 100, 30)
        \* calculateLinkDensity: linkText.length / text.length, 0 without text
        keep == IF textChars(n) = 0 THEN One
                ELSE Frac(textChars(n) - allLinkChars(n), textChars(n))
    IN  FracAdd(FracMul(Frac(beforeLinks, 1), keep),
                Frac(Min(5 * n.imgs, 20) + Min(3 * Len(n.ps), 30)
                     + Min(5 * Len(n.hs), 20), 1))

\* score *= (1 - linkDensity), linkDensity = linkLength / (textLength || 1)
LinkFactor(textLength, linkLength) ==
    Frac(OrOne(textLength) - linkLength, OrOne(textLength))

\* calculateContentScore of part_001
calculateContentScoreC(n) ==
    LET tagFactor == IF n.tag \in {"article", "main", "section"}
                     THEN <<3, 2>> ELSE One
        positive == IF TestClass(n, {"article", "content", "post", "main"})
                    THEN <<6, 5>> ELSE One
        negative == IF TestClass(n, {"comment", "meta", "footer", "sidebar"})
                    THEN <<4, 5>> ELSE One
    IN  FracMul(FracMul(FracMul(FracMul(scoreElement(n), tagFactor), positive), negative),
                LinkFactor(calculateTextLength(textChars(n)),
                           calculateTextLength(allLinkChars(n))))

RECURSIVE trySelectors(_, _, _, _)
\* the loop `for (const selector of selectors)`: the first match of each
\* selector is validated, and the first valid one is returned (0: none)
trySelectors(selectors, ver, opts, els) ==
    IF selectors = <<>> THEN [node |-> 0, checked |-> {}]
    ELSE LET i == FirstMatch(Head(selectors), els) IN
         IF i # 0 /\ isValidContent(ver, opts, els[i])
         THEN [node |-> i, checked |-> {i}]
         ELSE LET r == trySelectors(Tail(selectors), ver, opts, els)
              IN  [node |-> r.node,
                   checked |-> r.checked \cup (IF i # 0 THEN {i} ELSE {})]

\* extractByXPath: every XPath expression, stripped of "//" and "[@", is a
\* malformed selector; $() throws on each and the catch continues
extractByXPath(els) == [node |-> 0, checked |-> {}]

\* the first index of cands whose score is the greatest (strict `>` updates)
FirstMax(cands, score) ==
    CHOOSE i \in cands :
        \A j \in cands :
            /\ ~FracLess(score[i], score[j])
            /\ j < i => FracLess(score[j], score[i])

\* bestNode after the loop: null (0) when nothing was scanned
BestOf(cands, score) == IF cands = {} THEN 0 ELSE FirstMax(cands, score)

\* return bestNode && this.isValidContent(bestNode) ? bestNode : null
Validated(opts, els, best) ==
    IF best = 0 THEN [node |-> 0, checked |-> {}]
    ELSE [node |-> IF isValidContentB(opts, els[best]) THEN best ELSE 0,
          checked |-> {best}]

\* findBestNode of TitleExtractor.ts: the best-scoring div, article, section
\* or main, validated after the scan
findBestNode(opts, els) ==
    Validated(opts, els,
        BestOf({i \in 1..Len(els) : els[i].tag \in {"div", "article", "section", "main"}},
               [i \in 1..Len(els) |-> calculateContentScoreB(els[i])]))

\* bestElement after the loop: the valid elements whose score exceeds -1 compete
BestAbove(opts, els, score) ==
    BestOf({i \in 1..Len(els) :
                isValidContentC(opts, els[i]) /\ FracLess(<<0 - 1, 1>>, score[i])},
           score)

\* the scoring loop of extractMainContent of part_001: the best-scoring
\* valid element of `body *`, starting from bestScore = -1
scanBody(opts, els) ==
    [node |-> BestAbove(opts, els, [i \in 1..Len(els) |-> calculateContentScoreC(els[i])]),
     checked |-> 1..Len(els)]

\* the stages of extractMainContent, in the order the version runs them
StagesOf(ver) ==
    CASE ver = "BaseExtractor.ts" -> <<"custom", "generic", "fallback">>
      [] ver = "TitleExtractor.ts" -> <<"xpath", "custom", "generic", "scan", "fallback">>
      [] OTHER -> <<"generic", "custom", "scan", "fallback">>

\* what one stage yields
RunStage(stage, ver, variant, opts, els) ==
    CASE stage = "xpath" -> extractByXPath(els)
      [] stage = "custom" -> trySelectors(getCustomSelectors(variant), ver, opts, els)
      [] stage = "generic" -> trySelectors(CONTENT_SELECTORS, ver, opts, els)
      [] stage = "scan" ->
            IF ver = "TitleExtractor.ts" THEN findBestNode(opts, els)
            ELSE scanBody(opts, els)
      [] OTHER -> [node |-> 0, checked |-> {}]

RECURSIVE RunStages(_, _, _, _, _)
RunStages(stages, ver, variant, opts, els) ==
    IF stages = <<>> THEN 0
    ELSE LET r == RunStage(Head(stages), ver, variant, opts, els) IN
         IF r.node # 0 THEN r.node
         ELSE RunStages(Tail(stages), ver, variant, opts, els)

\* extractMainContent: the index of the element returned, 0 for <body>
extractMainContent(ver, variant, opts, doc) ==
    RunStages(StagesOf(ver), ver, variant, opts, Elements(doc))

SelInit ==
    /\ sel \in {[pc |-> Head(StagesOf(ver)), ver |-> ver, variant |-> variant,
                 opts |-> opts, doc |-> doc, stages |-> <<>>, checked |-> {},
                 result |-> 0, from |-> "none"] :
                    ver \in Versions, variant \in SelVariants,
                    opts \in UNION {OptionsOf(v) : v \in SelVariants},
                    doc \in Documents}
    /\ sel.opts \in OptionsOf(sel.variant)
    /\ \A i \in 1..Len(sel.doc) : SurvivesCleaning(sel.ver, sel.opts, sel.doc[i])
    /\ sim = SimIdle
    /\ disp = DispIdle
    /\ extractors = [v \in Variants |-> "none"]
    /\ ext = [v \in Variants |-> NewExtractor]
    /\ calls = [c \in Calls |-> IdleCall]
    /\ IdleBut("none")

\* the stage that follows `stage` in the version's extractMainContent
NextStage(ver, stage) ==
    LET order == StagesOf(ver)
        k == CHOOSE i \in 1..Len(order) : order[i] = stage
    IN  order[k + 1]

\* the selection after a stage yielded r: the verdicts of isValidContent it
\* obtained are recorded, and it returns r.node or goes on to the next stage
Outcome(stage, els, r) ==
    [sel EXCEPT
        !.stages = Append(@, stage),
        !.checked = @ \cup {<<i, isValidContent(sel.ver, sel.opts, els[i])>> : i \in r.checked},
        !.result = r.node,
        !.from = IF r.node # 0 \/ stage = "fallback" THEN stage ELSE "none",
        !.pc = IF r.node # 0 \/ stage = "fallback" THEN "done"
               ELSE NextStage(sel.ver, stage)]

\* the effect of one stage: return its node, or go on to the next stage
Stage(stage) ==
    /\ sel' = Outcome(stage, Elements(sel.doc),
                      RunStage(stage, sel.ver, sel.variant, sel.opts, Elements(sel.doc)))
    /\ UNCHANGED <<sim, disp, extractors, ext, calls, units>>

ExtractByXPath ==
    /\ sel.pc = "xpath"
    /\ Stage("xpath")

TryVariantSelectors ==
    /\ sel.pc = "custom"
    /\ Stage("custom")

TryGenericSelectors ==
    /\ sel.pc = "generic"
    /\ Stage("generic")

HeuristicScan ==
    /\ sel.pc = "scan"
    /\ Stage("scan")

FallbackBody ==
    /\ sel.pc = "fallback"
    /\ Stage("fallback")

SelNext ==
    \/ ExtractByXPath
    \/ TryVariantSelectors
    \/ TryGenericSelectors
    \/ HeuristicScan
    \/ FallbackBody

SpecSelector == SelInit /\ [][SelNext]_vars

SelDone == sel.pc = "done"

\* the elements that some selector of the variant matches
VariantMatches(variant, els) ==
    {i \in 1..Len(els) :
        \E k \in 1..Len(getCustomSelectors(variant)) :
            Matches(getCustomSelectors(variant)[k], els[i])}

IsPrefix(s, t) == Len(s) <= Len(t) /\ \A i \in 1..Len(s) : s[i] = t[i]

NamedStage(stage) == stage # "xpath"

\* C2: the stages run in the order TryVariantSelectors, TryGenericSelectors,
\* HeuristicScan, Fallback(Body), and whenever some variant selector matches
\* an element that passes isValidContent, the variant stage returns such a
\* match.
C2_StageOrder ==
    sel.pc # "off" =>
        LET els == Elements(sel.doc)
            validMatches ==
                {i \in VariantMatches(sel.variant, els) :
                    isValidContent(sel.ver, sel.opts, els[i])}
        IN  /\ getCustomSelectors(sel.variant) # <<>> =>
                    IsPrefix(SelectSeq(sel.stages, NamedStage),
                             <<"custom", "generic", "scan", "fallback">>)
            /\ SelDone /\ validMatches # {} =>
                    sel.from = "custom" /\ sel.result \in validMatches

ScannedTags == {"div", "article", "section", "main"}

\* the score the version's scan ranks by
ScanScore(ver, n) ==
    IF ver = "part_001" THEN calculateContentScoreC(n) ELSE calculateContentScoreB(n)

\* C3: HeuristicScan returns the first maximum-score element among the div,
\* article, section and main elements that pass isValidContent, and the body
\* is returned only when no such element is valid.
C3_HeuristicScanMax ==
    SelDone =>
        LET els == Elements(sel.doc)
            valid == {i \in 1..Len(els) :
                        /\ els[i].tag \in ScannedTags
                        /\ isValidContent(sel.ver, sel.opts, els[i])}
            score == [i \in valid |-> ScanScore(sel.ver, els[i])]
        IN  /\ sel.from = "scan" =>
                    valid # {} /\ sel.result = FirstMax(valid, score)
            /\ sel.from = "fallback" => valid = {}

ExclusionSet == {"nav", "header", "footer", "aside", "script", "style", "meta", "link"}

\* isValidContent as the four conditions state it, in the version's own
\* measure of text length and with link density over all <a> descendants
FourConditions(ver, opts, n) ==
    LET words == ver = "part_001"
        textLength == IF words THEN calculateTextLength(textChars(n)) ELSE textChars(n)
        linkLength == IF words THEN calculateTextLength(allLinkChars(n)) ELSE allLinkChars(n)
        score == IF words THEN scoreElement(n) ELSE Frac(calculateNodeScore(n), 1)
    IN  /\ n.tag \notin ExclusionSet
        /\ ~FracLess(score, Frac(opts.minScore, 1))
        /\ textLength >= opts.minTextLength
        /\ 2 * linkLength <= textLength

\* C4: isValidContent is true exactly when the tag is outside the exclusion
\* set, the score is at least minScore, the text length at least
\* minTextLength and the link density (over all links) at most 0.5; every
\* element returned by a stage other than the fallback meets all four.
C4_ValidityConditions ==
    sel.pc # "off" =>
        LET els == Elements(sel.doc) IN
        /\ \A c \in sel.checked :
                c[2] = FourConditions(sel.ver, sel.opts, els[c[1]])
        /\ SelDone /\ sel.from # "fallback" =>
                FourConditions(sel.ver, sel.opts, els[sel.result])

\* no element of the document clears minTextLength
NothingClears(ver, opts, els) ==
    \A i \in 1..Len(els) :
        (IF ver = "part_001" THEN calculateTextLength(textChars(els[i]))
         ELSE textChars(els[i])) < opts.minTextLength

\* C5: when no element clears minTextLength, the selection is re-attempted
\* once with the lower threshold retryLength, and the body is returned only
\* if the re-attempt finds nothing either.
C5_RetryWithRetryLength ==
    /\ SelDone
    /\ sel.opts.retryLength < sel.opts.minTextLength
    /\ NothingClears(sel.ver, sel.opts, Elements(sel.doc))
    => sel.result =
          extractMainContent(sel.ver, sel.variant,
                             [sel.opts EXCEPT !.minTextLength = sel.opts.retryLength],
                             sel.doc)

(***************************************************************************)
(* Text Metrics: longest common substring.                                 *)
(***************************************************************************)
core == <<sim, disp, sel, extractors, ext, calls>>

\* the extractor components take no part
CoreIdle ==
    /\ sim = SimIdle
    /\ disp = DispIdle
    /\ sel = SelIdle
    /\ extractors = {}
    /\ ext = <<>>
    /\ calls = <<>>

\* matrix[i][j]: the length of the longest common suffix of the first i
\* characters of str1 and the first j characters of str2
RECURSIVE matrix(_, _, _, _)
matrix(str1, str2, i, j) ==
    IF i = 0 \/ j = 0 THEN 0
    ELSE IF str1[i] = str2[j] THEN matrix(str1, str2, i - 1, j - 1) + 1
    ELSE 0

\* the two nested loops keep the first cell, rows first, that holds the
\* greatest entry (a cell replaces the running maximum only when it is
\* strictly greater): maxLength is the greatest entry, endIndex the least
\* row that holds it
fillMatrix(str1, str2) ==
    LET entries == {matrix(str1, str2, i, j) : i \in 1..Len(str1), j \in 1..Len(str2)}
        maxLength == CHOOSE m \in entries : \A e \in entries : e <= m
        rows == {i \in 1..Len(str1) :
                    \E j \in 1..Len(str2) : matrix(str1, str2, i, j) = maxLength}
    IN  [maxLength |-> maxLength,
         endIndex |-> IF maxLength = 0 THEN 0
                      ELSE CHOOSE i \in rows : \A r \in rows : i <= r]

\* str1.slice(from, to), 0 <= from <= to <= str1.length
slice(str1, from, to) == SubSeq(str1, from + 1, to)

findLongestCommonSubstring(str1, str2) ==
    IF str1 = <<>> \/ str2 = <<>>
    THEN [out |-> IF str1 # <<>> THEN str1 ELSE str2, endIndex |-> 0]
    ELSE LET best == fillMatrix(str1, str2)
         IN  [out |-> slice(str1, best.endIndex - best.maxLength, best.endIndex),
              endIndex |-> best.endIndex]

\* the private copy of the Title Resolver: the same statements
getLongestCommonSubstring(str1, str2) == findLongestCommonSubstring(str1, str2)

LcsInit ==
    /\ lcs \in {[pc |-> "start", a |-> x, b |-> y, by |-> "none", out |-> <<>>,
                 endIndex |-> 0] : x \in Strings, y \in Strings}
    /\ CoreIdle
    /\ IdleBut("lcs")

FindLongestCommonSubstring ==
    /\ lcs.pc = "start"
    /\ lcs' = [lcs EXCEPT !.pc = "done", !.by = "findLongestCommonSubstring",
                          !.out = findLongestCommonSubstring(lcs.a, lcs.b).out,
                          !.endIndex = findLongestCommonSubstring(lcs.a, lcs.b).endIndex]
    /\ UNCHANGED core
    /\ Only("lcs")

GetLongestCommonSubstring ==
    /\ lcs.pc = "start"
    /\ lcs' = [lcs EXCEPT !.pc = "done", !.by = "getLongestCommonSubstring",
                          !.out = getLongestCommonSubstring(lcs.a, lcs.b).out,
                          !.endIndex = getLongestCommonSubstring(lcs.a, lcs.b).endIndex]
    /\ UNCHANGED core
    /\ Only("lcs")

LcsNext == FindLongestCommonSubstring \/ GetLongestCommonSubstring

SpecSubstring == LcsInit /\ [][LcsNext]_vars

\* t occurs contiguously in s, its last character at index e of s
OccursEndingAt(t, s, e) ==
    /\ e - Len(t) >= 0
    /\ e <= Len(s)
    /\ SubSeq(s, e - Len(t) + 1, e) = t

OccursIn(t, s) == \E e \in 0..Len(s) : OccursEndingAt(t, s, e)

\* C11: for all strings a and b, the empty ones included, the longest common
\* substring function returns a string that occurs contiguously in both a and
\* b, that is at least as long as every common contiguous substring, and that
\* is, among the common substrings of that length, the one ending earliest
\* in a.
C11_LongestCommonSubstring ==
    lcs.pc = "done" =>
        /\ OccursIn(lcs.out, lcs.a)
        /\ OccursIn(lcs.out, lcs.b)
        /\ \A t \in Strings :
               OccursIn(t, lcs.a) /\ OccursIn(t, lcs.b) =>
                   /\ Len(t) <= Len(lcs.out)
                   /\ Len(t) = Len(lcs.out) /\ t # <<>> =>
                          \A e \in 1..Len(lcs.a) :
                              OccursEndingAt(t, lcs.a, e) => lcs.endIndex <= e

\* both arguments non-empty: the function is the classic dynamic program
C11_BothNonEmpty ==
    lcs.pc = "done" /\ lcs.a # <<>> /\ lcs.b # <<>> => C11_LongestCommonSubstring

(***************************************************************************)
(* Text Metrics: link density.                                             *)
(* The value of a JavaScript division is a fraction, or NaN (0/0, written  *)
(* <<0, 0>>), or Infinity (n/0 for n > 0, written <<1, 0>>).               *)
(***************************************************************************)
MaxOwnText == 2

MaxLinkText == 2

NaN == <<0, 0>>

Infinity == <<1, 0>>

Divide(n, d) ==
    IF d # 0 THEN Frac(n, d) ELSE IF n = 0 THEN NaN ELSE Infinity

\* the elements a link density is computed of: the element library, and small
\* elements with and without text, links and a noise class
DensityNodes ==
    NodeKinds \cup
    { Element("div", c, t, l, 0, <<>>, <<>>) :
        c \in {<<>>, <<"ad">>}, t \in 0..MaxOwnText,
        l \in UNION {[1..k -> 0..MaxLinkText] : k \in 0..2} }

DensitySites ==
    {"shouldKeepNode", "removeNode", "isValidContent", "calculateNodeScore",
     "calculateContentScore"}

\* calculateLinkDensity of utils/extractor.ts
calculateLinkDensity(n) ==
    IF textChars(n) = 0 THEN Zero ELSE Frac(allLinkChars(n), textChars(n))

\* the statement of a site is reached for element n
ReachesDensity(site, opts, n) ==
    CASE site = "shouldKeepNode" ->
            MatchesNoise(n) /\ n.imgs = 0 /\ textChars(n) > opts.minTextLength
      [] site = "removeNode" -> MatchesNoise(n) /\ ~shouldKeepNode(opts, n)
      [] site = "isValidContent" ->
            n.tag \notin {"nav", "header", "footer", "aside"}
            /\ textChars(n) >= opts.minTextLength
      [] OTHER -> TRUE

\* `const linkDensity = ...` where the extractors compute it themselves
inlineLinkDensity(site, n) ==
    CASE site = "shouldKeepNode" -> Divide(allLinkChars(n), textChars(n))
      [] site = "removeNode" -> Divide(firstLinkChars(n), textChars(n))
      [] site = "isValidContent" -> Divide(firstLinkChars(n), textChars(n))
      [] site = "calculateNodeScore" -> Divide(firstLinkChars(n), OrOne(textChars(n)))
      [] site = "calculateContentScore" ->
            Divide(calculateTextLength(allLinkChars(n)),
                   OrOne(calculateTextLength(textChars(n))))

DensInit ==
    /\ dens \in {[pc |-> "start", node |-> n, opts |-> o, site |-> "none", value |-> Zero] :
                    n \in DensityNodes, o \in OptionsOf("base")}
    /\ CoreIdle
    /\ IdleBut("dens")

CalculateLinkDensity ==
    /\ dens.pc = "start"
    /\ dens' = [dens EXCEPT !.pc = "done", !.site = "calculateLinkDensity",
                            !.value = calculateLinkDensity(dens.node)]
    /\ UNCHANGED core
    /\ Only("dens")

InlineLinkDensity(site) ==
    /\ dens.pc = "start"
    /\ ReachesDensity(site, dens.opts, dens.node)
    /\ dens' = [dens EXCEPT !.pc = "done", !.site = site,
                            !.value = inlineLinkDensity(site, dens.node)]
    /\ UNCHANGED core
    /\ Only("dens")

DensNext ==
    \/ CalculateLinkDensity
    \/ \E site \in DensitySites : InlineLinkDensity(site)

SpecDensity == DensInit /\ [][DensNext]_vars

IsNumber(v) == v \notin {NaN, Infinity}

\* C12: every link density computed, by calculateLinkDensity or inline, is a
\* number in [0,1] (never NaN, never infinite), and it is 0 for an element
\* without a descendant <a> and for an element without text.
C12_LinkDensityRange ==
    dens.pc = "done" =>
        /\ IsNumber(dens.value)
        /\ FracLeq(Zero, dens.value)
        /\ FracLeq(dens.value, One)
        /\ dens.node.links = <<>> \/ textChars(dens.node) = 0 => FracEq(dens.value, Zero)

\* the same for calculateLinkDensity alone
C12_UtilityOnly ==
    dens.pc = "done" /\ dens.site = "calculateLinkDensity" => C12_LinkDensityRange

(***************************************************************************)
(* Text Metrics: text length.                                              *)
(* A text is a sequence of characters: "a" a Latin letter, " " whitespace, *)
(* "zh" a CJK ideograph (U+4E00..9FFF), "ka" a kana (U+3040..30FF), "ar"   *)
(* an Arabic letter (U+0600..06FF).                                        *)
(***************************************************************************)
MaxTextLen == 3

TextChars == {"a", " ", "zh", "ka", "ar"}

Texts == UNION {[1..n -> TextChars] : n \in 0..MaxTextLen}

\* text.match(/[class]/g)?.length || 0
RECURSIVE matchCount(_, _)
matchCount(text, class) ==
    IF text = <<>> THEN 0
    ELSE (IF Head(text) = class THEN 1 ELSE 0) + matchCount(Tail(text), class)

\* text.replace(/\s+/g, ' '): every run of whitespace becomes one space
RECURSIVE collapseWhitespace(_)
collapseWhitespace(text) ==
    IF text = <<>> THEN <<>>
    ELSE IF Head(text) = " "
    THEN <<" ">> \o collapseWhitespace(SubSeq(text, SkipWhitespace(text, 1), Len(text)))
    ELSE <<Head(text)>> \o collapseWhitespace(Tail(text))

\* String.prototype.trim
RECURSIVE trim(_)
trim(text) ==
    IF text = <<>> THEN <<>>
    ELSE IF Head(text) = " " THEN trim(Tail(text))
    ELSE IF text[Len(text)] = " " THEN trim(SubSeq(text, 1, Len(text) - 1))
    ELSE text

\* calculateTextLength(text) of utils/extractor.ts, on a text with whitespace
calculateTextLengthOfText(text) ==
    IF text = <<>> THEN 0
    ELSE Len(split(collapseWhitespace(text)))
         + matchCount(collapseWhitespace(text), "zh")
         + matchCount(collapseWhitespace(text), "ka")
         + matchCount(collapseWhitespace(text), "ar")

\* calculateTextLength($, elem) of the second utils generation
calculateTextLengthOfElement(text) == Len(trim(text))

TlenInit ==
    /\ tlen \in {[pc |-> "start", text |-> t, by |-> "none", value |-> 0] : t \in Texts}
    /\ CoreIdle
    /\ IdleBut("tlen")

CalculateTextLength ==
    /\ tlen.pc = "start"
    /\ tlen' = [tlen EXCEPT !.pc = "done", !.by = "calculateTextLength(text)",
                            !.value = calculateTextLengthOfText(tlen.text)]
    /\ UNCHANGED core
    /\ Only("tlen")

CalculateTextLengthOfElement ==
    /\ tlen.pc = "start"
    /\ tlen' = [tlen EXCEPT !.pc = "done", !.by = "calculateTextLength($, elem)",
                            !.value = calculateTextLengthOfElement(tlen.text)]
    /\ UNCHANGED core
    /\ Only("tlen")

TlenNext == CalculateTextLength \/ CalculateTextLengthOfElement

SpecTextLength == TlenInit /\ [][TlenNext]_vars

\* the whitespace-delimited words of a text that hold a Latin letter
LatinWords(text) ==
    Cardinality({i \in 1..Len(split(text)) : "a" \in Range(split(text)[i])})

\* the maximal runs of Latin letters of a text
LatinRuns(text) ==
    Cardinality({i \in 1..Len(text) :
                    text[i] = "a" /\ (i = 1 \/ text[i - 1] # "a")})

ScriptChars(text) ==
    matchCount(text, "zh") + matchCount(text, "ka") + matchCount(text, "ar")

\* C13: textLength(s) is the number of whitespace-delimited Latin-script words
\* of s plus its CJK ideographs, kana and Arabic characters, every character
\* counted once, and 0 for the empty string.  (A Latin word is read either as
\* a whitespace-delimited word holding a Latin letter or as a run of Latin
\* letters; either count is accepted.)
C13_TextLength ==
    tlen.pc = "done" =>
        tlen.value \in {LatinWords(tlen.text) + ScriptChars(tlen.text),
                        LatinRuns(tlen.text) + ScriptChars(tlen.text)}

\* the part of C13 the code meets: a text of Latin words separated by single
\* spaces, and the empty text, under calculateTextLength(text)
C13_LatinOnly ==
    tlen.pc = "done" /\ tlen.by = "calculateTextLength(text)"
    /\ Range(tlen.text) \subseteq {"a", " "} /\ trim(tlen.text) = tlen.text
        => C13_TextLength

(***************************************************************************)
(* Document Cleaner.                                                       *)
(*                                                                         *)
(* A document is the sequence of the <div> children of <body>.  A child    *)
(* has a class list, text of its own, links, images and at most one nested *)
(* <div> (a class list, text, images).  A removed child of <body> keeps    *)
(* its place in the sequence with gone = TRUE, so that positions stay      *)
(* comparable; bodyText counts the characters that removeNode copied into  *)
(* <body>.  No element carries a style or hidden attribute, and text holds *)
(* no whitespace.                                                          *)
(***************************************************************************)
MaxTop == 2

CleanerVersions == {"BaseExtractor.ts", "part_001"}

Kid(cls, text, imgs) == [cls |-> cls, text |-> text, imgs |-> imgs]

Top(cls, text, links, imgs, kids) ==
    [cls |-> cls, text |-> text, links |-> links, imgs |-> imgs, kids |-> kids,
     gone |-> FALSE]

KidKinds == {Kid(<<"ad">>, 10, 0), Kid(<<>>, 0, 1), Kid(<<>>, 0, 0)}

TopKinds ==
    { Top(c, t, l, i, k) :
        c \in {<<>>, <<"comment">>, <<"ad">>}, t \in {0, 20, 25},
        l \in {<<>>, <<10, 10>>}, i \in {0, 1},
        k \in {<<>>} \cup {<<x>> : x \in KidKinds} }

CleanerDocuments ==
    {[top |-> t, bodyText |-> 0] : t \in UNION {[1..n -> TopKinds] : n \in 0..MaxTop}}

\* the nested element as the flat element the metrics are computed of
KidView(k) == Element("div", k.cls, k.text, <<>>, k.imgs, <<>>, <<>>)

\* a child of <body> with its descendants, likewise
View(n) ==
    Element("div", n.cls,
            n.text + (IF n.kids = <<>> THEN 0 ELSE n.kids[1].text),
            n.links,
            n.imgs + (IF n.kids = <<>> THEN 0 ELSE n.kids[1].imgs),
            <<>>, <<>>)

\* the class selectors of NOISE_SELECTORS that classes of these documents
\* match, in the order of the list
CleanerSelectors == <<"comment", "ad">>

\* removeNode removes the element: always in part_001; in BaseExtractor.ts
\* only with linkDensity > 0.5 or textLength < minTextLength
Removes(ver, opts, e) ==
    \/ ver = "part_001"
    \/ FracLess(<<1, 2>>, Divide(firstLinkChars(e), textChars(e)))
    \/ textChars(e) < opts.minTextLength

\* $node.next().text().trim().length for the child of <body> at position i
RECURSIVE nextText(_, _)
nextText(doc, j) ==
    IF j > Len(doc.top) THEN 0
    ELSE IF ~doc.top[j].gone THEN textChars(View(doc.top[j]))
    ELSE nextText(doc, j + 1)

\* one selector's callback on the child of <body> at position i
noiseTop(ver, opts, doc, class, i) ==
    IF /\ ~doc.top[i].gone
       /\ class \in Range(doc.top[i].cls)
       /\ ~shouldKeepNode(opts, View(doc.top[i]))
       /\ Removes(ver, opts, View(doc.top[i]))
    THEN [doc EXCEPT !.top[i].gone = TRUE,
                     !.bodyText = IF ver = "part_001" THEN @ + nextText(doc, i + 1) ELSE @]
    ELSE doc

\* one selector's callback on the nested element at position i
noiseKid(ver, opts, doc, class, i) ==
    IF /\ doc.top[i].kids # <<>>
       /\ class \in Range(doc.top[i].kids[1].cls)
       /\ ~shouldKeepNode(opts, KidView(doc.top[i].kids[1]))
       /\ Removes(ver, opts, KidView(doc.top[i].kids[1]))
    THEN [doc EXCEPT !.top[i].kids = <<>>]
    ELSE doc

\* this.$(selector).each(...): the matches in document order
RECURSIVE noisePass(_, _, _, _, _)
noisePass(ver, opts, doc, class, i) ==
    IF i > Len(doc.top) THEN doc
    ELSE noisePass(ver, opts,
                   noiseKid(ver, opts, noiseTop(ver, opts, doc, class, i), class, i),
                   class, i + 1)

RECURSIVE forEachSelector(_, _, _, _)
forEachSelector(ver, opts, doc, k) ==
    IF k > Len(CleanerSelectors) THEN doc
    ELSE forEachSelector(ver, opts, noisePass(ver, opts, doc, CleanerSelectors[k], 1), k + 1)

\* an element without any child node
NoContents(n) == n.text = 0 /\ n.links = <<>> /\ n.imgs = 0 /\ n.kids = <<>>

KidNoContents(n) == n.kids # <<>> /\ n.kids[1].text = 0 /\ n.kids[1].imgs = 0

HasText(len) == len > 0

\* one pass of "remove the elements without contents", over a selection made
\* before the pass: an element emptied by the pass itself stays.  The
\* selection holds the <a> elements when anchors is TRUE.
removeEmptyOnce(doc, anchors) ==
    [doc EXCEPT !.top = [i \in 1..Len(doc.top) |->
        [doc.top[i] EXCEPT
            !.gone = @ \/ NoContents(doc.top[i]),
            !.links = IF anchors THEN SelectSeq(@, HasText) ELSE @,
            !.kids = IF KidNoContents(doc.top[i]) THEN <<>> ELSE @]]]

\* removeNoiseNodes: the selectors, the hidden elements (none here), and
\* $('div:empty, p:empty, span:empty').remove()
removeNoiseNodes(ver, opts, doc) ==
    removeEmptyOnce(forEachSelector(ver, opts, doc, 1), FALSE)

\* cleanEmptyNodes of part_001: passes until one removes nothing
RECURSIVE cleanEmptyNodesLoop(_)
cleanEmptyNodesLoop(doc) ==
    IF removeEmptyOnce(doc, TRUE) = doc THEN doc
    ELSE cleanEmptyNodesLoop(removeEmptyOnce(doc, TRUE))

\* cleanEmptyNodes of BaseExtractor.ts: one pass in document order removes
\* each element whose text is empty and that has no img descendant; an <img>
\* has neither text nor a descendant, so it is removed when its turn comes
cleanEmptyNodesOnce(doc) ==
    [doc EXCEPT !.top = [i \in 1..Len(doc.top) |->
        [doc.top[i] EXCEPT
            !.gone = @ \/ (textChars(View(doc.top[i])) = 0 /\ View(doc.top[i]).imgs = 0),
            !.links = SelectSeq(@, HasText),
            !.imgs = 0,
            !.kids = IF KidNoContents(doc.top[i]) THEN <<>>
                     ELSE [k \in 1..Len(@) |-> [@[k] EXCEPT !.imgs = 0]]]]]

cleanEmptyNodes(ver, doc) ==
    IF ver = "part_001" THEN cleanEmptyNodesLoop(doc) ELSE cleanEmptyNodesOnce(doc)

\* the steps of cleanDocument, in order
CleanerSteps(ver) ==
    IF ver = "part_001"
    THEN <<"cleanHtml", "removeNoiseNodes", "cleanEmptyNodes", "normalizeContent">>
    ELSE <<"removeNoiseNodes", "cleanEmptyNodes", "normalizeContent">>

ClnInit ==
    /\ cln \in {[pc |-> Head(CleanerSteps(v)), ver |-> v, opts |-> o, input |-> d,
                 doc |-> d, run |-> 1, first |-> d] :
                    v \in CleanerVersions, o \in OptionsOf("base"), d \in CleanerDocuments}
    /\ CoreIdle
    /\ IdleBut("cln")

\* the step after `step`; after the last step of the first run the cleaner
\* is run again on the tree it produced
AfterStep(step, doc) ==
    LET order == CleanerSteps(cln.ver)
        k == CHOOSE i \in 1..Len(order) : order[i] = step
    IN  IF k < Len(order) THEN [cln EXCEPT !.pc = order[k + 1], !.doc = doc]
        ELSE IF cln.run = 1
        THEN [cln EXCEPT !.pc = Head(order), !.doc = doc, !.first = doc, !.run = 2]
        ELSE [cln EXCEPT !.pc = "done", !.doc = doc]

\* cleanHtml with no script, style or comment node in the document: the
\* pass over the elements without contents
CleanHtml ==
    /\ cln.pc = "cleanHtml"
    /\ cln' = AfterStep("cleanHtml", removeEmptyOnce(cln.doc, TRUE))
    /\ UNCHANGED core
    /\ Only("cln")

RemoveNoiseNodes ==
    /\ cln.pc = "removeNoiseNodes"
    /\ cln' = AfterStep("removeNoiseNodes", removeNoiseNodes(cln.ver, cln.opts, cln.doc))
    /\ UNCHANGED core
    /\ Only("cln")

CleanEmptyNodes ==
    /\ cln.pc = "cleanEmptyNodes"
    /\ cln' = AfterStep("cleanEmptyNodes", cleanEmptyNodes(cln.ver, cln.doc))
    /\ UNCHANGED core
    /\ Only("cln")

\* normalizeContent rewrites and merges text nodes only
NormalizeContent ==
    /\ cln.pc = "normalizeContent"
    /\ cln' = AfterStep("normalizeContent", cln.doc)
    /\ UNCHANGED core
    /\ Only("cln")

ClnNext == CleanHtml \/ RemoveNoiseNodes \/ CleanEmptyNodes \/ NormalizeContent

SpecCleaner == ClnInit /\ [][ClnNext]_vars

\* C14: the Document Cleaner is idempotent on removals: the second run of
\* cleanDocument, on the tree the first run produced, removes no node.
C14_CleanerIdempotent ==
    cln.pc = "done" => cln.doc = cln.first

\* the first run's noise removal has just finished
NoiseRemoved == cln.pc = "cleanEmptyNodes" /\ cln.run = 1

\* shouldKeepNode holds of the element as it is now or as it was in the input
\* (the callback saw it in one of these two forms)
KeptForCause(now, before) ==
    shouldKeepNode(cln.opts, now) \/ shouldKeepNode(cln.opts, before)

\* C20: after noise removal no element remains that matches a noise pattern
\* and for which shouldKeepNode is false: an element matching a noise pattern
\* remains only if it has an image/video/iframe descendant or its text exceeds
\* minTextLength with link density below maxLinkDensity.
C20_NoiseRemoved ==
    NoiseRemoved =>
        \A i \in 1..Len(cln.doc.top) :
            /\ ~cln.doc.top[i].gone /\ MatchesNoise(View(cln.doc.top[i])) =>
                   KeptForCause(View(cln.doc.top[i]), View(cln.input.top[i]))
            /\ ~cln.doc.top[i].gone /\ cln.doc.top[i].kids # <<>>
               /\ MatchesNoise(KidView(cln.doc.top[i].kids[1])) =>
                   KeptForCause(KidView(cln.doc.top[i].kids[1]),
                                KidView(cln.input.top[i].kids[1]))

(***************************************************************************)
(* Title Resolver.                                                         *)
(*                                                                         *)
(* Two classes are named TitleExtractor: the one of TitleExtractor.ts      *)
(* (meta, headings, <title>, other tags) and the one at the end of         *)
(* WeixinExtractor.ts (meta, then <title> reconciled with the headings).   *)
(* A page gives the content of the og:title, twitter:title and name=title  *)
(* metas, the <title> text, the texts of its <h1> elements in document     *)
(* order, and the text of an .article-title element.  "-" is a separator   *)
(* of cleanTitle; no text holds brackets or markup.                        *)
(***************************************************************************)
MaxTitleLen == 3

MaxHeadingLen == 2

MaxHeadings == 2

TitleChars == {"a", "b", " ", "-"}

TitleVersions == {"TitleExtractor.ts", "WeixinExtractor.ts"}

TitleTexts(n) == UNION {[1..k -> TitleChars] : k \in 0..n}

Page(meta, title, headings, other) ==
    [meta |-> meta, title |-> title, headings |-> headings, other |-> other]

\* "Foo - MySite" with <h1>Foo</h1>
FooPage ==
    Page(<<>>, <<"F", "o", "o", " ", "-", " ", "M", "y", "S", "i", "t", "e">>, <<<<"F", "o", "o">>>>, <<>>)

\* Scenario E: two headings and a <title> with a site-name suffix
ScenarioE ==
    Page(<<>>, <<"M", "a", "r", "k", "e", "t", "s", " ", "R", "a", "l", "l", "y", " ", "emdash", " ", "L", "i", "v", "e", "W", "i", "r", "e", " ", "|", " ", "N", "e", "w", "s", " ", "C", "o">>, <<<<"B", "r", "e", "a", "k", "i", "n", "g", ":", " ", "M", "a", "r", "k", "e", "t", "s", " ", "R", "a", "l", "l", "y">>, <<"M", "a", "r", "k", "e", "t", "s", " ", "R", "a", "l", "l", "y", " ", "emdash", " ", "L", "i", "v", "e", "W", "i", "r", "e">>>>, <<>>)

\* pages without a meta title, and pages with one
TitlePages ==
    { Page(<<>>, t, h, o) :
        t \in TitleTexts(MaxTitleLen),
        h \in UNION {[1..k -> TitleTexts(MaxHeadingLen)] : k \in 0..MaxHeadings},
        o \in {<<>>, <<"b">>} }
    \cup
    { Page(m, t, h, <<>>) :
        m \in {<< <<"a">>, <<"b">>, <<>> >>, << <<>>, <<"b">>, <<"a">> >>,
               << <<"-", "a">>, <<>>, <<>> >>},
        t \in TitleTexts(1),
        h \in UNION {[1..k -> TitleTexts(1)] : k \in 0..1} }
    \cup {FooPage, ScenarioE}

\* index of the first separator character of s, 0 if there is none
RECURSIVE firstSeparator(_, _)
firstSeparator(s, i) ==
    IF i > Len(s) THEN 0
    ELSE IF s[i] \in {"-", "_", "|"} THEN i
    ELSE firstSeparator(s, i + 1)

\* cleanTitle: whitespace is collapsed and the text is cut at its first
\* separator; TitleExtractor.ts cuts only when a character follows it
cleanTitle(ver, s) ==
    LET c == trim(collapseWhitespace(s))
        k == firstSeparator(c, 1)
    IN  IF k = 0 \/ (ver = "TitleExtractor.ts" /\ k = Len(c)) THEN c
        ELSE trim(SubSeq(c, 1, k - 1))

\* the first non-empty entry of a sequence of texts, <<>> if there is none
RECURSIVE firstNonEmpty(_)
firstNonEmpty(texts) ==
    IF texts = <<>> THEN <<>>
    ELSE IF trim(Head(texts)) # <<>> THEN trim(Head(texts))
    ELSE firstNonEmpty(Tail(texts))

\* the heading texts collected: trimmed and non-empty in TitleExtractor.ts;
\* cleaned, non-empty and without duplicates in WeixinExtractor.ts
RECURSIVE collectHeadings(_, _, _)
collectHeadings(ver, headings, titles) ==
    IF headings = <<>> THEN titles
    ELSE LET text == IF ver = "TitleExtractor.ts" THEN trim(Head(headings))
                     ELSE cleanTitle(ver, Head(headings))
         IN  collectHeadings(ver, Tail(headings),
                IF text = <<>> \/ (ver # "TitleExtractor.ts" /\ text \in Range(titles))
                THEN titles ELSE Append(titles, text))

\* headings.sort(by similarity to the title text, descending)[0]: the sort
\* is stable, so the first heading of greatest similarity
mostSimilar(headings, titleText) ==
    headings[CHOOSE i \in 1..Len(headings) :
        \A j \in 1..Len(headings) :
            /\ FracLeq(calculateSimilarityDice(headings[j], titleText),
                       calculateSimilarityDice(headings[i], titleText))
            /\ j < i => FracLess(calculateSimilarityDice(headings[j], titleText),
                                 calculateSimilarityDice(headings[i], titleText))]

\* TitleExtractor.extract of TitleExtractor.ts
extractTitleT(page, headings) ==
    IF firstNonEmpty(page.meta) # <<>>
    THEN cleanTitle("TitleExtractor.ts", firstNonEmpty(page.meta))
    ELSE IF headings # <<>>
    THEN cleanTitle("TitleExtractor.ts",
                    IF trim(page.title) # <<>> THEN mostSimilar(headings, trim(page.title))
                    ELSE headings[1])
    ELSE IF trim(page.title) # <<>> THEN cleanTitle("TitleExtractor.ts", page.title)
    ELSE IF trim(page.other) # <<>> THEN cleanTitle("TitleExtractor.ts", page.other)
    ELSE <<>>

\* TitleExtractor.extract of WeixinExtractor.ts
extractTitleW(page, titleTagContent, headingTitles) ==
    IF cleanTitle("WeixinExtractor.ts", firstNonEmpty(page.meta)) # <<>>
    THEN cleanTitle("WeixinExtractor.ts", firstNonEmpty(page.meta))
    ELSE IF titleTagContent # <<>> /\ headingTitles # <<>>
    THEN getLongestCommonSubstring(mostSimilar(headingTitles, titleTagContent),
                                   titleTagContent).out
    ELSE IF titleTagContent # <<>> THEN titleTagContent
    ELSE IF headingTitles # <<>> THEN headingTitles[1]
    ELSE <<>>

TtlInit ==
    /\ ttl \in {[pc |-> "start", ver |-> v, page |-> p, result |-> <<>>] :
                    v \in TitleVersions, p \in TitlePages}
    /\ CoreIdle
    /\ IdleBut("ttl")

ExtractTitle ==
    /\ ttl.pc = "start"
    /\ ttl.ver = "TitleExtractor.ts"
    /\ ttl' = [ttl EXCEPT !.pc = "done",
                  !.result = extractTitleT(ttl.page,
                                collectHeadings(ttl.ver, ttl.page.headings, <<>>))]
    /\ UNCHANGED core
    /\ Only("ttl")

ExtractTitleReconciled ==
    /\ ttl.pc = "start"
    /\ ttl.ver = "WeixinExtractor.ts"
    /\ ttl' = [ttl EXCEPT !.pc = "done",
                  !.result = extractTitleW(ttl.page, cleanTitle(ttl.ver, ttl.page.title),
                                collectHeadings(ttl.ver, ttl.page.headings, <<>>))]
    /\ UNCHANGED core
    /\ Only("ttl")

TtlNext == ExtractTitle \/ ExtractTitleReconciled

SpecTitle == TtlInit /\ [][TtlNext]_vars

NoMetaTitle == \A i \in 1..Len(ttl.page.meta) : trim(ttl.page.meta[i]) = <<>>

\* the page has a <title> text that cleanup leaves non-empty
HasTitleTag == cleanTitle(ttl.ver, ttl.page.title) # <<>>

\* the headings that cleanup leaves non-empty
CleanHeadings ==
    {i \in 1..Len(ttl.page.headings) : cleanTitle(ttl.ver, ttl.page.headings[i]) # <<>>}

\* C15: with a title-tag text and at least one heading and no meta title,
\* the resolved title is the longest common substring of the most similar
\* heading and the title-tag text, hence a contiguous substring of the
\* title-tag text and of a heading; "Foo - MySite" with <h1>Foo</h1> gives
\* "Foo", and Scenario E gives a title that holds "Markets Rally" and not the
\* site name "News Co".
C15_TitleReconciled ==
    ttl.pc = "done" /\ NoMetaTitle /\ HasTitleTag /\ CleanHeadings # {} =>
        /\ OccursIn(ttl.result, collapseWhitespace(ttl.page.title))
        /\ \E i \in CleanHeadings :
               OccursIn(ttl.result, collapseWhitespace(ttl.page.headings[i]))
        /\ ttl.page = FooPage => ttl.result = <<"F", "o", "o">>
        /\ ttl.page = ScenarioE =>
               /\ OccursIn(<<"M", "a", "r", "k", "e", "t", "s", " ", "R", "a", "l", "l", "y">>, ttl.result)
               /\ ~OccursIn(<<"N", "e", "w", "s", " ", "C", "o">>, ttl.result)

\* the examples of C15 alone
C15_Examples ==
    ttl.pc = "done" /\ ttl.page \in {FooPage, ScenarioE} => C15_TitleReconciled

\* C16: the sources are tried in the order meta, <title>, headings.  A
\* non-empty meta title is returned whatever the rest holds, og:title before
\* twitter:title before the generic metas; if exactly one of <title> text and
\* heading text exists it is returned after cleanup; and the result is empty
\* only when no source holds a title.  (A source counts as holding a title
\* when cleanup leaves it non-empty.)
C16_TitleSourceOrder ==
    ttl.pc = "done" =>
        /\ \A i \in 1..Len(ttl.page.meta) :
               /\ cleanTitle(ttl.ver, ttl.page.meta[i]) # <<>>
               /\ \A j \in 1..(i - 1) : trim(ttl.page.meta[j]) = <<>>
               => ttl.result = cleanTitle(ttl.ver, ttl.page.meta[i])
        /\ NoMetaTitle /\ HasTitleTag /\ CleanHeadings = {}
           /\ (\A i \in 1..Len(ttl.page.headings) : trim(ttl.page.headings[i]) = <<>>)
               => ttl.result = cleanTitle(ttl.ver, ttl.page.title)
        /\ NoMetaTitle /\ trim(ttl.page.title) = <<>> /\ CleanHeadings # {}
               => \E i \in CleanHeadings :
                      ttl.result = cleanTitle(ttl.ver, ttl.page.headings[i])
        /\ NoMetaTitle /\ (HasTitleTag \/ CleanHeadings # {}) => ttl.result # <<>>

(***************************************************************************)
(* Forum variant: main post and replies.                                   *)
(*                                                                         *)
(* result.content is the inner HTML of the selected node: a sequence of    *)
(* post-like elements (class post, reply, ...), which are either the       *)
(* top-level elements of the content or the children of one wrapping       *)
(* <div>.  A post has its classes, its data-unique-id attribute ("" when   *)
(* absent), its position in document order and its floor number (0 when    *)
(* it carries none).  extract is the only public entry; the methods behind *)
(* it are also applied on their own to the drawn content.                  *)
(***************************************************************************)
MaxPosts == 3

PostClasses == {<<"post", "first-post">>, <<"post">>, <<"reply">>}

ForumContents ==
    UNION { { [wrapped |-> w,
               posts |-> [k \in 1..n |->
                             [cls |-> c[k], uid |-> u[k], pos |-> k, floor |-> 0]]] :
                w \in BOOLEAN, c \in [1..n -> PostClasses], u \in [1..n -> {"", "9"}] } :
            n \in 0..MaxPosts }

\* $content.find(...): the descendants of the top-level elements of content
Descendants(content) == IF content.wrapped THEN content.posts ELSE <<>>

\* generateUniqueIds: every post-like element without the attribute gets the
\* next value of uniqueIdCounter
RECURSIVE generateUniqueIds(_, _)
generateUniqueIds(posts, counter) ==
    IF posts = <<>> THEN <<>>
    ELSE IF Head(posts).uid # "" THEN <<Head(posts)>> \o generateUniqueIds(Tail(posts), counter)
    ELSE <<[Head(posts) EXCEPT !.uid = ToString(counter + 1)]>>
         \o generateUniqueIds(Tail(posts), counter + 1)

\* the data-unique-id of the first element of class c among the descendants,
\* "none" when there is no such element
FirstOfClass(desc, c) ==
    IF \E k \in 1..Len(desc) : c \in Range(desc[k].cls)
    THEN desc[CHOOSE k \in 1..Len(desc) :
                 /\ c \in Range(desc[k].cls)
                 /\ \A j \in 1..(k - 1) : c \notin Range(desc[j].cls)].uid
    ELSE "none"

\* findMainPostId: the first .first-post, else (no element here has an id
\* attribute holding post-1) the first .post, else ''
findMainPostId(content) ==
    IF FirstOfClass(Descendants(content), "first-post") # "none"
    THEN FirstOfClass(Descendants(content), "first-post")
    ELSE IF FirstOfClass(Descendants(content), "post") # "none"
    THEN FirstOfClass(Descendants(content), "post")
    ELSE ""

\* reorganizeContent: the clones of the main post, then the clones of the
\* other elements that carry the attribute, inside a new container
reorganizeContent(content, mainPostId) ==
    IF SelectSeq(Descendants(content), LAMBDA e : e.uid = mainPostId) = <<>>
    THEN content
    ELSE [wrapped |-> TRUE,
          posts |-> SelectSeq(Descendants(content), LAMBDA e : e.uid = mainPostId)
                    \o SelectSeq(Descendants(content),
                                 LAMBDA e : e.uid # "" /\ e.uid # mainPostId)]

FrmInit ==
    /\ frm \in {[pc |-> "start", content |-> c, ids |-> FALSE, mainPostId |-> "",
                 out |-> c, error |-> "none"] : c \in ForumContents}
    /\ CoreIdle
    /\ IdleBut("frm")

\* ForumExtractor.extract: `this.$('base[href]')` is evaluated before
\* super.extract assigns this.$, and nothing else assigns it
ForumExtract ==
    /\ frm.pc = "start"
    /\ ~frm.ids
    /\ frm' = [frm EXCEPT !.pc = "thrown", !.error = "TypeError"]
    /\ UNCHANGED core
    /\ Only("frm")

\* preProcess ends with generateUniqueIds (no caller in the repository)
GenerateUniqueIds ==
    /\ frm.pc = "start"
    /\ ~frm.ids
    /\ frm' = [frm EXCEPT !.ids = TRUE,
                          !.content.posts = generateUniqueIds(@, 0),
                          !.out.posts = generateUniqueIds(@, 0)]
    /\ UNCHANGED core
    /\ Only("frm")

FindMainPostId ==
    /\ frm.pc = "start"
    /\ frm' = [frm EXCEPT !.pc = "found", !.mainPostId = findMainPostId(frm.content)]
    /\ UNCHANGED core
    /\ Only("frm")

\* if (mainPostId) result.content = reorganizeContent(result.content, mainPostId)
ReorganizeContent ==
    /\ frm.pc = "found"
    /\ frm' = [frm EXCEPT !.pc = "rebuilt",
                          !.out = IF frm.mainPostId # ""
                                  THEN reorganizeContent(frm.content, frm.mainPostId)
                                  ELSE frm.content]
    /\ UNCHANGED core
    /\ Only("frm")

FrmNext == ForumExtract \/ GenerateUniqueIds \/ FindMainPostId \/ ReorganizeContent

SpecForum == FrmInit /\ [][FrmNext]_vars

\* the position of the main post: the first post tagged first-post, else the
\* first element of class post, else the first post-like element
MainPosition(posts) ==
    IF \E k \in 1..Len(posts) : "first-post" \in Range(posts[k].cls)
    THEN CHOOSE k \in 1..Len(posts) :
             /\ "first-post" \in Range(posts[k].cls)
             /\ \A j \in 1..(k - 1) : "first-post" \notin Range(posts[j].cls)
    ELSE IF \E k \in 1..Len(posts) : "post" \in Range(posts[k].cls)
    THEN CHOOSE k \in 1..Len(posts) :
             /\ "post" \in Range(posts[k].cls)
             /\ \A j \in 1..(k - 1) : "post" \notin Range(posts[j].cls)
    ELSE 1

\* the positions of the posts in the order the claim gives: the main post,
\* then the others in document order
MainFirst(posts) ==
    <<MainPosition(posts)>>
    \o SelectSeq([k \in 1..Len(posts) |-> k], LAMBDA k : k # MainPosition(posts))

\* C17: for a forum document with n post-like nodes the content is rebuilt
\* as the main post (the node tagged first-post, else the first post-like
\* element) with floor 1, followed by the other n-1 post-like nodes in
\* document order with floors 2..n.
C17_MainPostFirst ==
    frm.pc = "rebuilt" /\ frm.content.posts # <<>> =>
        /\ [k \in 1..Len(frm.out.posts) |-> frm.out.posts[k].pos]
               = MainFirst(frm.content.posts)
        /\ \A k \in 1..Len(frm.out.posts) : frm.out.posts[k].floor = k

\* the order alone, where the posts are nested and carry distinct ids
C17_OrderWithIds ==
    frm.pc = "rebuilt" /\ frm.content.posts # <<>> /\ frm.content.wrapped
    /\ (\A j, k \in 1..Len(frm.content.posts) :
            /\ frm.content.posts[k].uid # ""
            /\ j # k => frm.content.posts[j].uid # frm.content.posts[k].uid)
        => [k \in 1..Len(frm.out.posts) |-> frm.out.posts[k].pos]
               = MainFirst(frm.content.posts)

\* C18: when no post-like node can be located, extract fails with
\* MissingMainPost, and only then: the outcome differs from a successful
\* result with empty content and from the outcome for a page with posts.
C18_MissingMainPost ==
    frm.pc \in {"thrown", "rebuilt"} =>
        (frm.error = "MissingMainPost" <=> frm.content.posts = <<>>)

(***************************************************************************)
(* Table normalization.                                                    *)
(*                                                                         *)
(* Every page is loaded by cheerio's HTML parser, which puts each <tr> of  *)
(* a table into a section: a parsed table is a sequence of sections        *)
(* (thead, tbody, tfoot) whose children are rows.  wrap and wrapAll put    *)
(* the new element where the wrapped row stands, so a section of a         *)
(* normalized table may also hold a <thead> or <tbody> element with rows.  *)
(***************************************************************************)
MaxCells == 2
MaxBodyRows == 2

Row(cells) == [tag |-> "tr", cells |-> cells]

Wrapper(tag, rows) == [tag |-> tag, kids |-> rows]

TableRows == {Row(c) : c \in UNION {[1..n -> {"td", "th"}] : n \in 1..MaxCells}}

ParsedTables ==
    { head \o body \o foot :
        head \in {<<>>} \cup {<<Wrapper("thead", <<r>>)>> : r \in TableRows},
        body \in {<<>>} \cup {<<Wrapper("tbody", rs)>> :
                                 rs \in UNION {[1..n -> TableRows] : n \in 0..MaxBodyRows}},
        foot \in {<<>>} \cup {<<Wrapper("tfoot", <<r>>)>> : r \in TableRows} }

IsRow(item) == item.tag = "tr"

\* $table.find(tag).length > 0
Finds(table, tag) ==
    \E s \in 1..Len(table) :
        \/ table[s].tag = tag
        \/ \E i \in 1..Len(table[s].kids) : table[s].kids[i].tag = tag

RECURSIVE Concat(_)
Concat(seqs) == IF seqs = <<>> THEN <<>> ELSE Head(seqs) \o Concat(Tail(seqs))

\* the rows under one child of a section, each with its ancestors below the table
ItemRows(section, item) ==
    IF IsRow(item) THEN <<[cells |-> item.cells, anc |-> <<section>>]>>
    ELSE [k \in 1..Len(item.kids) |->
             [cells |-> item.kids[k].cells, anc |-> <<section, item.tag>>]]

\* $table.find('tr'): the rows of the table in document order
Rows(table) ==
    Concat([s \in 1..Len(table) |->
               Concat([i \in 1..Len(table[s].kids) |->
                          ItemRows(table[s].tag, table[s].kids[i])])])

\* $cell.replaceWith(`<th>...</th>`) for every td of the row
promote(row) == Row([k \in 1..Len(row.cells) |-> "th"])

FirstRowSection(table) ==
    CHOOSE s \in 1..Len(table) :
        /\ table[s].kids # <<>>
        /\ \A j \in 1..(s - 1) : table[j].kids = <<>>

\* the first row gets th cells and is wrapped, in place, in a <thead>
addThead(table) ==
    IF ~Finds(table, "thead") /\ Rows(table) # <<>>
    THEN [table EXCEPT ![FirstRowSection(table)].kids[1] =
                           Wrapper("thead", <<promote(@)>>)]
    ELSE table

FirstRowAt(kids) ==
    CHOOSE i \in 1..Len(kids) : IsRow(kids[i]) /\ \A j \in 1..(i - 1) : ~IsRow(kids[j])

\* $table.find('tr:not(thead tr)').wrapAll('<tbody>'): without a tbody the
\* rows outside a thead are the direct rows of the tfoot
wrapAllRows(kids) ==
    IF \E i \in 1..Len(kids) : IsRow(kids[i])
    THEN SubSeq(kids, 1, FirstRowAt(kids) - 1)
         \o <<Wrapper("tbody", SelectSeq(kids, IsRow))>>
         \o SelectSeq(SubSeq(kids, FirstRowAt(kids) + 1, Len(kids)), LAMBDA k : ~IsRow(k))
    ELSE kids

addTbody(table) ==
    IF ~Finds(table, "tbody")
    THEN [s \in 1..Len(table) |->
             IF table[s].tag = "thead" THEN table[s]
             ELSE [table[s] EXCEPT !.kids = wrapAllRows(@)]]
    ELSE table

normalizeHtml(table) == addTbody(addThead(table))

processSpecialContent(table) == addTbody(addThead(table))

\* ArticleExtractor: the td cells of the first row become th, nothing else
normalizeTables(table) ==
    IF Rows(table) # <<>>
    THEN [table EXCEPT ![FirstRowSection(table)].kids[1] = promote(@)]
    ELSE table

TblInit ==
    /\ tbl \in {[pc |-> "parsed", by |-> "", input |-> t, table |-> t] : t \in ParsedTables}
    /\ CoreIdle
    /\ IdleBut("tbl")

NormalizeHtml ==
    /\ tbl.pc = "parsed"
    /\ tbl' = [tbl EXCEPT !.pc = "normalized", !.by = "normalizeHtml",
                          !.table = normalizeHtml(@)]
    /\ UNCHANGED core
    /\ Only("tbl")

\* ReadabilityPlus.postprocessContent: normalizeHtml, then processSpecialContent
ProcessSpecialContent ==
    /\ tbl.pc = "normalized"
    /\ tbl' = [tbl EXCEPT !.pc = "done", !.by = "processSpecialContent",
                          !.table = processSpecialContent(@)]
    /\ UNCHANGED core
    /\ Only("tbl")

NormalizeTables ==
    /\ tbl.pc = "parsed"
    /\ tbl' = [tbl EXCEPT !.pc = "done", !.by = "normalizeTables",
                          !.table = normalizeTables(@)]
    /\ UNCHANGED core
    /\ Only("tbl")

TblNext == NormalizeHtml \/ ProcessSpecialContent \/ NormalizeTables

SpecTable == TblInit /\ [][TblNext]_vars

CellsOf(table) == [k \in 1..Len(Rows(table)) |-> Rows(table)[k].cells]

HeaderFirst(rows) ==
    /\ Head(rows).anc = <<"thead">>
    /\ \A k \in 2..Len(rows) :
           /\ "tbody" \in Range(rows[k].anc)
           /\ "thead" \notin Range(rows[k].anc)

\* C19: after table normalization every table with at least one row has a
\* thead that is a child of the table and holds the first row, whose cells
\* are all th when the table had no thead; every other row lies inside a
\* tbody and not inside the thead; a table that already had a thead keeps
\* its cells unchanged.
C19_TableNormalized ==
    tbl.pc # "parsed" /\ Rows(tbl.input) # <<>> =>
        /\ HeaderFirst(Rows(tbl.table))
        /\ IF Finds(tbl.input, "thead")
           THEN CellsOf(tbl.table) = CellsOf(tbl.input)
           ELSE Range(Head(Rows(tbl.table)).cells) = {"th"}

\* the same for a table that already has a thead, a tbody and no tfoot,
\* normalized by normalizeHtml or processSpecialContent
C19_WithThead ==
    (/\ tbl.pc # "parsed"
     /\ tbl.by # "normalizeTables"
     /\ Finds(tbl.input, "thead")
     /\ ~Finds(tbl.input, "tfoot"))
        => /\ HeaderFirst(Rows(tbl.table))
           /\ CellsOf(tbl.table) = CellsOf(tbl.input)

\* the cells alone: promoted in a header-less table, unchanged otherwise
C19_Cells ==
    tbl.pc # "parsed" /\ tbl.by # "normalizeTables" /\ Rows(tbl.input) # <<>> =>
        IF Finds(tbl.input, "thead")
        THEN CellsOf(tbl.table) = CellsOf(tbl.input)
        ELSE /\ Range(Head(Rows(tbl.table)).cells) = {"th"}
             /\ Tail(CellsOf(tbl.table)) = Tail(CellsOf(tbl.input))

(***************************************************************************)
(* Scripts, styles and comments in cleanDocument.                          *)
(*                                                                         *)
(* The children of <body> are scripts, styles, comment nodes and <div>s    *)
(* with their own text and comment children; `root` counts the comment     *)
(* nodes that are children of the document itself.  text() is textContent: *)
(* it includes the code of a script and the rules of a style and leaves    *)
(* out comments.                                                           *)
(***************************************************************************)
MaxBody == 3

BodyNode(tag, text, comments) == [tag |-> tag, text |-> text, comments |-> comments]

BodyKinds ==
    {BodyNode("script", 5, 0), BodyNode("script", 0, 0), BodyNode("style", 5, 0),
     BodyNode("#comment", 0, 1), BodyNode("div", 30, 1), BodyNode("div", 0, 1),
     BodyNode("div", 30, 0)}

BodyDocuments ==
    {[root |-> r, body |-> b] :
        r \in 0..1, b \in UNION {[1..n -> BodyKinds] : n \in 0..MaxBody}}

IsElement(n) == n.tag # "#comment"

\* cleanHtml: comment children of elements, scripts, styles, then one pass
\* over the elements without contents
cleanHtml(removeComments, doc) ==
    [doc EXCEPT !.body =
        SelectSeq([k \in 1..Len(doc.body) |->
                      IF removeComments THEN [doc.body[k] EXCEPT !.comments = 0]
                      ELSE doc.body[k]],
                  LAMBDA n : /\ n.tag \notin {"script", "style"}
                             /\ ~(removeComments /\ n.tag = "#comment")
                             /\ ~(IsElement(n) /\ n.text = 0 /\ n.comments = 0))]

\* $('div:empty, p:empty, span:empty').remove(): comments do not count
removeEmptyDivs(doc) ==
    [doc EXCEPT !.body = SelectSeq(@, LAMBDA n : ~(n.tag = "div" /\ n.text = 0))]

\* BaseExtractor.ts cleanEmptyNodes: every element whose text is empty goes,
\* <body> included
cleanEmptyByText(doc) ==
    IF SumSeq([k \in 1..Len(doc.body) |-> doc.body[k].text]) = 0
    THEN [doc EXCEPT !.body = <<>>]
    ELSE [doc EXCEPT !.body = SelectSeq(@, LAMBDA n : ~(IsElement(n) /\ n.text = 0))]

\* part_001 cleanEmptyNodes: every element without contents goes
cleanEmptyByContents(doc) ==
    [doc EXCEPT !.body =
        SelectSeq(@, LAMBDA n : ~(IsElement(n) /\ n.text = 0 /\ n.comments = 0))]

cleanDocumentOf(ver, includeComments, doc) ==
    IF ver = "part_001"
    THEN cleanEmptyByContents(removeEmptyDivs(cleanHtml(~includeComments, doc)))
    ELSE cleanEmptyByText(removeEmptyDivs(doc))

StripInit ==
    /\ dom \in {[pc |-> "loaded", ver |-> v, includeComments |-> i, input |-> d, doc |-> d] :
                   v \in CleanerVersions, i \in BOOLEAN, d \in BodyDocuments}
    /\ CoreIdle
    /\ IdleBut("dom")

CleanDocument ==
    /\ dom.pc = "loaded"
    /\ dom' = [dom EXCEPT !.pc = "cleaned",
                          !.doc = cleanDocumentOf(dom.ver, dom.includeComments, dom.doc)]
    /\ UNCHANGED core
    /\ Only("dom")

SpecStrip == StripInit /\ [][CleanDocument]_vars

CommentCount(doc) ==
    doc.root + SumSeq([k \in 1..Len(doc.body) |-> doc.body[k].comments])

NoScriptOrStyle(doc) ==
    \A k \in 1..Len(doc.body) : doc.body[k].tag \notin {"script", "style"}

\* C21: after cleanDocument no script or style element remains, whatever
\* the options; with includeComments true the cleaner removes no comment,
\* with includeComments false no comment remains.
C21_ScriptsStylesComments ==
    dom.pc = "cleaned" =>
        /\ NoScriptOrStyle(dom.doc)
        /\ IF dom.includeComments
           THEN CommentCount(dom.doc) = CommentCount(dom.input)
           ELSE CommentCount(dom.doc) = 0

\* in part_001 the scripts and styles go whatever the option, and the
\* comments that are children of elements go exactly when includeComments
\* is false (those of a removed element go with it)
C21_LatestCleaner ==
    dom.pc = "cleaned" /\ dom.ver = "part_001" =>
        /\ NoScriptOrStyle(dom.doc)
        /\ IF dom.includeComments
           THEN \A k \in 1..Len(dom.input.body) :
                    \/ dom.input.body[k].tag = "#comment"
                    \/ dom.input.body[k].tag = "div" /\ dom.input.body[k].text > 0
                        => \E j \in 1..Len(dom.doc.body) : dom.doc.body[j] = dom.input.body[k]
           ELSE CommentCount(dom.doc) = dom.doc.root

(***************************************************************************)
(* The empty-node step.                                                    *)
(*                                                                         *)
(* A forest of elements below a <body> that has text of its own: an        *)
(* element has a tag, its own text ("none": no text node, "space": a       *)
(* whitespace-only text node, "text") and child elements, which are        *)
(* leaves.  $('*').each runs over the elements selected before the pass,   *)
(* in document order: a parent comes before its children.                  *)
(***************************************************************************)
MaxForest == 2
MaxKids == 2

Elem(tag, text, kids) == [tag |-> tag, text |-> text, kids |-> kids]

OwnTexts == {"none", "space", "text"}

LeafElems ==
    {Elem("div", t, <<>>) : t \in OwnTexts} \cup {Elem("img", "none", <<>>), Elem("embed", "none", <<>>)}

ForestElems ==
    LeafElems \cup {Elem("div", t, ks) :
                       t \in OwnTexts, ks \in UNION {[1..n -> LeafElems] : n \in 1..MaxKids}}

Forests == UNION {[1..n -> ForestElems] : n \in 1..MaxForest}

EmptySteps == {"part_001", "TitleExtractor.ts", "cleanHtml"}

isPreservableNode(n) == n.tag \in {"img", "video", "iframe", "embed"}

\* !$elem.contents().length && !isPreservableNode(elem)
WithoutContents(n) == n.text = "none" /\ n.kids = <<>> /\ ~isPreservableNode(n)

Gone == Elem("gone", "none", <<>>)

\* one pass of part_001's loop, which is also the last pass of cleanHtml
contentsVisit(n) ==
    IF WithoutContents(n) THEN Gone
    ELSE [n EXCEPT !.kids = SelectSeq(@, LAMBDA k : ~WithoutContents(k))]

contentsPass(forest) ==
    SelectSeq([i \in 1..Len(forest) |-> contentsVisit(forest[i])], LAMBDA n : n # Gone)

\* do { ... } while (removed)
RECURSIVE contentsLoop(_)
contentsLoop(forest) ==
    IF contentsPass(forest) = forest THEN forest ELSE contentsLoop(contentsPass(forest))

\* !text && !$elem.find('img, video, iframe').length
WithoutText(n) ==
    /\ n.text # "text"
    /\ \A k \in 1..Len(n.kids) : n.kids[k].text # "text"
    /\ \A k \in 1..Len(n.kids) : n.kids[k].tag \notin {"img", "video", "iframe"}

\* the single pass of TitleExtractor.ts and BaseExtractor.ts
textVisit(n) ==
    IF WithoutText(n) THEN Gone
    ELSE [n EXCEPT !.kids = SelectSeq(@, LAMBDA k : ~WithoutText(k))]

textPass(forest) ==
    SelectSeq([i \in 1..Len(forest) |-> textVisit(forest[i])], LAMBDA n : n # Gone)

EmptyInit ==
    /\ dom \in {[pc |-> "loaded", step |-> e, input |-> f, forest |-> f] :
                   e \in EmptySteps, f \in Forests}
    /\ CoreIdle
    /\ IdleBut("dom")

\* part_001 cleanEmptyNodes
EmptyContentsLoop ==
    /\ dom.pc = "loaded"
    /\ dom.step = "part_001"
    /\ dom' = [dom EXCEPT !.pc = "finished", !.forest = contentsLoop(@)]
    /\ UNCHANGED core
    /\ Only("dom")

\* TitleExtractor.ts cleanEmptyNodes
EmptyTextPass ==
    /\ dom.pc = "loaded"
    /\ dom.step = "TitleExtractor.ts"
    /\ dom' = [dom EXCEPT !.pc = "finished", !.forest = textPass(@)]
    /\ UNCHANGED core
    /\ Only("dom")

\* the empty-node pass that ends cleanHtml
EmptyContentsPass ==
    /\ dom.pc = "loaded"
    /\ dom.step = "cleanHtml"
    /\ dom' = [dom EXCEPT !.pc = "finished", !.forest = contentsPass(@)]
    /\ UNCHANGED core
    /\ Only("dom")

EmptyNext == EmptyContentsLoop \/ EmptyTextPass \/ EmptyContentsPass

SpecEmpty == EmptyInit /\ [][EmptyNext]_vars

\* the elements of a forest, parents and children alike
AllElems(forest) ==
    Range(forest) \cup UNION {Range(forest[i].kids) : i \in 1..Len(forest)}

MediaCount(forest) ==
    SumSeq([i \in 1..Len(forest) |->
               (IF isPreservableNode(forest[i]) THEN 1 ELSE 0)
               + Cardinality({k \in 1..Len(forest[i].kids) : isPreservableNode(forest[i].kids[k])})])

\* C22: when the empty-node step finishes, no element without child
\* elements and without non-whitespace text remains, other than
\* img/video/iframe/embed, and the step has removed no img, video, iframe
\* or embed.
C22_EmptyFixedPoint ==
    dom.pc = "finished" =>
        /\ \A n \in AllElems(dom.forest) :
               isPreservableNode(n) \/ n.kids # <<>> \/ n.text = "text"
        /\ MediaCount(dom.forest) = MediaCount(dom.input)

\* part_001: no element without any child node remains, other than media,
\* and no media element is removed
C22_NoChildNodes ==
    dom.pc = "finished" /\ dom.step = "part_001" =>
        /\ \A n \in AllElems(dom.forest) : ~WithoutContents(n)
        /\ MediaCount(dom.forest) = MediaCount(dom.input)

(***************************************************************************)
(* normalizeContent: whitespace and adjacent text nodes.                   *)
(*                                                                         *)
(* The children of one element after the removals of the earlier steps:    *)
(* text nodes and leaf elements, each with its text.  id is the position   *)
(* of the node in $('*').contents(), the selection made before the loop.   *)
(***************************************************************************)
MaxSiblings == 4

NormalizeVersions == {"BaseExtractor.ts", "TitleExtractor.ts", "part_001"}

SiblingKinds ==
    {[type |-> "text", data |-> <<"a">>], [type |-> "text", data |-> <<"b">>],
     [type |-> "text", data |-> <<" ">>],
     [type |-> "tag", data |-> <<"a">>], [type |-> "tag", data |-> <<>>]}

SiblingLists ==
    UNION {{[k \in 1..n |-> [id |-> k, type |-> f[k].type, data |-> f[k].data]] :
               f \in [1..n -> SiblingKinds]} : n \in 0..MaxSiblings}

\* the first loop: part_001 leaves a whitespace-only text node alone
normalizeWhitespace(ver, nodes) ==
    [k \in 1..Len(nodes) |->
        IF nodes[k].type = "text" /\ (ver # "part_001" \/ trim(nodes[k].data) # <<>>)
        THEN [nodes[k] EXCEPT !.data = trim(collapseWhitespace(@))]
        ELSE nodes[k]]

\* the index in nodes of the node with this id, 0 when it has been removed
IndexOfId(nodes, id) ==
    IF \E i \in 1..Len(nodes) : nodes[i].id = id
    THEN CHOOSE i \in 1..Len(nodes) : nodes[i].id = id
    ELSE 0

RemoveAt(nodes, i) == SubSeq(nodes, 1, i - 1) \o SubSeq(nodes, i + 1, Len(nodes))

\* $(parent).find(`*:contains("${data}")`).first(): 0 when nothing matches
FirstContaining(nodes, data) ==
    IF \E i \in 1..Len(nodes) : nodes[i].type = "tag" /\ OccursIn(data, nodes[i].data)
    THEN CHOOSE i \in 1..Len(nodes) :
             /\ nodes[i].type = "tag" /\ OccursIn(data, nodes[i].data)
             /\ \A j \in 1..(i - 1) : ~(nodes[j].type = "tag" /\ OccursIn(data, nodes[j].data))
    ELSE 0

\* the body of the second loop for the node at index i, whose next sibling
\* is a text node
mergeAt(ver, nodes, i) ==
    IF ver = "TitleExtractor.ts"
    THEN IF FirstContaining(nodes, nodes[i + 1].data) = 0
         THEN [nodes EXCEPT ![i].data = trim(@ \o <<" ">> \o nodes[i + 1].data)]
         ELSE RemoveAt([nodes EXCEPT ![i].data = trim(@ \o <<" ">> \o nodes[i + 1].data)],
                       FirstContaining(nodes, nodes[i + 1].data))
    ELSE RemoveAt([nodes EXCEPT ![i].data = trim(@ \o <<" ">> \o nodes[i + 1].data)], i + 1)

\* the second loop, from the node with id k to the last node of the selection
RECURSIVE mergeFrom(_, _, _, _)
mergeFrom(ver, nodes, k, n) ==
    IF k > n THEN nodes
    ELSE IF /\ IndexOfId(nodes, k) # 0
            /\ IndexOfId(nodes, k) < Len(nodes)
            /\ nodes[IndexOfId(nodes, k)].type = "text"
            /\ nodes[IndexOfId(nodes, k) + 1].type = "text"
    THEN mergeFrom(ver, mergeAt(ver, nodes, IndexOfId(nodes, k)), k + 1, n)
    ELSE mergeFrom(ver, nodes, k + 1, n)

normalizeContentOf(ver, nodes) ==
    mergeFrom(ver, normalizeWhitespace(ver, nodes), 1, Len(nodes))

MergeInit ==
    /\ dom \in {[pc |-> "cleaned", ver |-> v, input |-> l, nodes |-> l] :
                   v \in NormalizeVersions, l \in SiblingLists}
    /\ CoreIdle
    /\ IdleBut("dom")

NormalizeSiblings ==
    /\ dom.pc = "cleaned"
    /\ dom' = [dom EXCEPT !.pc = "normalized", !.nodes = normalizeContentOf(dom.ver, @)]
    /\ UNCHANGED core
    /\ Only("dom")

SpecMerge == MergeInit /\ [][NormalizeSiblings]_vars

Ids(nodes, type) ==
    [k \in 1..Len(SelectSeq(nodes, LAMBDA x : x.type = type)) |->
        SelectSeq(nodes, LAMBDA x : x.type = type)[k].id]

\* the text nodes that do not follow a text node
RunFirsts(nodes) ==
    {nodes[k].id : k \in {j \in 1..Len(nodes) :
        nodes[j].type = "text" /\ (j = 1 \/ nodes[j - 1].type # "text")}}

NoAdjacentText(nodes) ==
    \A k \in 1..(Len(nodes) - 1) : ~(nodes[k].type = "text" /\ nodes[k + 1].type = "text")

\* the longest run of adjacent text nodes
LongestRun(nodes) ==
    CHOOSE m \in 0..Len(nodes) :
        /\ \A i \in 1..Len(nodes) : \A j \in i..Len(nodes) :
               (\A k \in i..j : nodes[k].type = "text") => j - i + 1 <= m
        /\ m = 0 \/ \E i \in 1..Len(nodes) :
               i + m - 1 <= Len(nodes) /\ \A k \in i..(i + m - 1) : nodes[k].type = "text"

\* C23: the merge removes only second text nodes and keeps each first node
\* in its position: no element is removed or moved, the text nodes that
\* remain are the first nodes of the runs of adjacent text nodes, and after
\* normalization no two text nodes are adjacent, also when three or more
\* were adjacent.
C23_MergeTextNodes ==
    dom.pc = "normalized" =>
        /\ Ids(dom.nodes, "tag") = Ids(dom.input, "tag")
        /\ Range(Ids(dom.nodes, "text")) = RunFirsts(dom.input)
        /\ NoAdjacentText(dom.nodes)

\* the same where at most two text nodes are adjacent, for the versions
\* that remove the second text node, with the data the first node gets
C23_Pairs ==
    (dom.pc = "normalized" /\ dom.ver # "TitleExtractor.ts" /\ LongestRun(dom.input) <= 2) =>
        /\ Ids(dom.nodes, "tag") = Ids(dom.input, "tag")
        /\ Range(Ids(dom.nodes, "text")) = RunFirsts(dom.input)
        /\ NoAdjacentText(dom.nodes)
        /\ \A i \in 1..(Len(dom.input) - 1) :
               dom.input[i].id \in RunFirsts(dom.input) /\ dom.input[i + 1].type = "text" =>
                   dom.nodes[IndexOfId(dom.nodes, i)].data
                       = trim(trim(dom.input[i].data) \o <<" ">> \o trim(dom.input[i + 1].data))

(***************************************************************************)
(* Exceptions while a candidate is evaluated.                              *)
(*                                                                         *)
(* The candidates of one stage in the order it visits them, each with its  *)
(* score, its validity, and whether evaluating it raises (text() recurses  *)
(* over the subtree, and raises RangeError on one too deep for the stack). *)
(* A stage yields the index of the node it returns (0 for null), the       *)
(* candidates it evaluated, and whether it ended by throwing.              *)
(***************************************************************************)
MaxCandidates == 3
MaxCandidateScore == 2

Candidates ==
    UNION {[1..n -> [score : 0..MaxCandidateScore, valid : BOOLEAN, raises : BOOLEAN]] :
              n \in 0..MaxCandidates}

CandidateStages == {"extractByXPath", "findBySelectors", "findBestNode", "scanBody"}

\* the first candidate whose evaluation raises, 0 when none does
FirstRaising(cands, upto) ==
    IF \E i \in 1..upto : cands[i].raises
    THEN CHOOSE i \in 1..upto : cands[i].raises /\ \A j \in 1..(i - 1) : ~cands[j].raises
    ELSE 0

Thrown(at) == [node |-> 0, evaluated |-> 1..at, thrown |-> TRUE]

Returned(node, evaluated) == [node |-> node, evaluated |-> evaluated, thrown |-> FALSE]

\* the first valid candidate, 0 when there is none
FirstValid(cands) ==
    IF \E i \in 1..Len(cands) : cands[i].valid
    THEN CHOOSE i \in 1..Len(cands) : cands[i].valid /\ \A j \in 1..(i - 1) : ~cands[j].valid
    ELSE 0

\* findBySelectors / the selector loops: isValidContent on the first match
\* of each selector, no try around it
selectorStage(cands) ==
    IF FirstValid(cands) = 0
    THEN IF FirstRaising(cands, Len(cands)) = 0 THEN Returned(0, 1..Len(cands))
         ELSE Thrown(FirstRaising(cands, Len(cands)))
    ELSE IF FirstRaising(cands, FirstValid(cands)) = 0
         THEN Returned(FirstValid(cands), 1..FirstValid(cands))
         ELSE Thrown(FirstRaising(cands, FirstValid(cands)))

\* the first candidate among those of set c with the greatest score
BestCandidate(cands, c) ==
    IF c = {} THEN 0
    ELSE CHOOSE i \in c : \A j \in c :
             /\ cands[j].score <= cands[i].score
             /\ j < i => cands[j].score < cands[i].score

\* findBestNode: calculateContentScore inside each(), isValidContent after it
bestNodeStage(cands) ==
    IF FirstRaising(cands, Len(cands)) # 0 THEN Thrown(FirstRaising(cands, Len(cands)))
    ELSE IF BestCandidate(cands, 1..Len(cands)) # 0
            /\ cands[BestCandidate(cands, 1..Len(cands))].valid
         THEN Returned(BestCandidate(cands, 1..Len(cands)), 1..Len(cands))
         ELSE Returned(0, 1..Len(cands))

\* the scoring loop of part_001: isValidContent, then calculateContentScore
scanStage(cands) ==
    IF FirstRaising(cands, Len(cands)) # 0 THEN Thrown(FirstRaising(cands, Len(cands)))
    ELSE Returned(BestCandidate(cands, {i \in 1..Len(cands) : cands[i].valid}), 1..Len(cands))

\* extractByXPath has the only try/catch, and no selector of it yields a
\* candidate
xpathStage(cands) == Returned(0, {})

IsoInit ==
    /\ dom \in {[pc |-> "selecting", stage |-> st, cands |-> c, out |-> Returned(0, {})] :
                   st \in CandidateStages, c \in Candidates}
    /\ CoreIdle
    /\ IdleBut("dom")

StageDone(stage, out) ==
    /\ dom.pc = "selecting"
    /\ dom.stage = stage
    /\ dom' = [dom EXCEPT !.pc = "returned", !.out = out]
    /\ UNCHANGED core
    /\ Only("dom")

XPathStage == StageDone("extractByXPath", xpathStage(dom.cands))

FindBySelectors == StageDone("findBySelectors", selectorStage(dom.cands))

FindBestNode == StageDone("findBestNode", bestNodeStage(dom.cands))

ScanBody == StageDone("scanBody", scanStage(dom.cands))

IsoNext == XPathStage \/ FindBySelectors \/ FindBestNode \/ ScanBody

SpecIsolation == IsoInit /\ [][IsoNext]_vars

\* C24: an exception raised while one candidate is evaluated is confined to
\* it: the stage does not throw, and a scan evaluates every candidate.
C24_ExceptionIsolated ==
    dom.pc = "returned" =>
        /\ ~dom.out.thrown
        /\ dom.stage \in {"findBestNode", "scanBody"} => dom.out.evaluated = 1..Len(dom.cands)

\* without a raising candidate no stage throws and a scan evaluates every
\* candidate
C24_NoException ==
    (dom.pc = "returned" /\ FirstRaising(dom.cands, Len(dom.cands)) = 0) =>
        /\ ~dom.out.thrown
        /\ dom.stage \in {"findBestNode", "scanBody"} => dom.out.evaluated = 1..Len(dom.cands)

(***************************************************************************)
(* Heading levels in post-processing.                                      *)
(*                                                                         *)
(* The levels of the headings of the content subtree in document order;    *)
(* no heading lies inside another one.                                     *)
(***************************************************************************)
MaxHeadingCount == 3

HeadingVersions == {"part_000", "ArticleExtractor.ts"}

HeadingLists == UNION {[1..n -> 1..6] : n \in 0..MaxHeadingCount}

\* part_000 postProcess: a heading more than one level below lastLevel
\* becomes h(lastLevel + 1); lastLevel starts at 1
RECURSIVE rewriteSkipped(_, _)
rewriteSkipped(levels, lastLevel) ==
    IF levels = <<>> THEN <<>>
    ELSE IF Head(levels) - lastLevel > 1
    THEN <<Min(lastLevel + 1, 6)>> \o rewriteSkipped(Tail(levels), Min(lastLevel + 1, 6))
    ELSE <<Head(levels)>> \o rewriteSkipped(Tail(levels), Head(levels))

\* ArticleExtractor.ts normalizeHeadings: every heading below h2 goes one
\* level down
normalizeHeadings(levels) ==
    [k \in 1..Len(levels) |-> IF levels[k] > 2 THEN Min(levels[k] + 1, 6) ELSE levels[k]]

HeadInit ==
    /\ dom \in {[pc |-> "selected", ver |-> v, input |-> l, levels |-> l] :
                   v \in HeadingVersions, l \in HeadingLists}
    /\ CoreIdle
    /\ IdleBut("dom")

RewriteSkipped ==
    /\ dom.pc = "selected"
    /\ dom.ver = "part_000"
    /\ dom' = [dom EXCEPT !.pc = "processed", !.levels = rewriteSkipped(@, 1)]
    /\ UNCHANGED core
    /\ Only("dom")

NormalizeHeadings ==
    /\ dom.pc = "selected"
    /\ dom.ver = "ArticleExtractor.ts"
    /\ dom' = [dom EXCEPT !.pc = "processed", !.levels = normalizeHeadings(@)]
    /\ UNCHANGED core
    /\ Only("dom")

HeadNext == RewriteSkipped \/ NormalizeHeadings

SpecHeadings == HeadInit /\ [][HeadNext]_vars

\* the level before heading k as rewritten: level 1 before the first one
Before(levels, k) == IF k = 1 THEN 1 ELSE levels[k - 1]

StepsOfOne(input, levels) ==
    /\ Len(levels) = Len(input)
    /\ \A k \in 1..Len(levels) :
           /\ levels[k] - Before(levels, k) <= 1
           /\ input[k] - Before(levels, k) <= 1 => levels[k] = input[k]

\* C25: after post-processing every heading is at most one level below the
\* previous heading as rewritten, and a heading that does not skip a level
\* is left unchanged.
C25_HeadingSteps == dom.pc = "processed" => StepsOfOne(dom.input, dom.levels)

\* the same for the post-processor of part_000 alone
C25_RewriteSkipped ==
    dom.pc = "processed" /\ dom.ver = "part_000" => StepsOfOne(dom.input, dom.levels)

(***************************************************************************)
(* Attribute stripping.                                                    *)
(*                                                                         *)
(* The elements of a document, each with the names of its attributes,      *)
(* whether it lies in the selected content subtree, and whether it is a    *)
(* span.math-inline holding TeX text.                                      *)
(***************************************************************************)
MaxElements == 2

AttributeNames == {"href", "datetime", "data-src", "pubdate", "style"}

AttributeVersions == {"TitleExtractor.ts", "readability_plus.ts"}

KEEP_ATTRIBUTES ==
    {"src", "href", "title", "alt", "class", "id", "name", "content", "data-src",
     "data-original"}

\* config.clean.keepAttributes
keepAttributes ==
    {"src", "href", "alt", "title", "datetime", "pubdate", "width", "height", "loading",
     "rel", "target", "class", "id", "role", "aria-label", "itemprop"}

AttributeDocuments ==
    UNION {[1..n -> [inside : BOOLEAN, attrs : SUBSET AttributeNames, math : BOOLEAN]] :
              n \in 0..MaxElements}

\* cleanAttributes: the selected node and, recursively, its children
cleanAttributes(els) ==
    [k \in 1..Len(els) |->
        IF els[k].inside THEN [els[k] EXCEPT !.attrs = @ \cap KEEP_ATTRIBUTES] ELSE els[k]]

\* processMathFormulas: $math.attr('data-tex', tex)
processMathFormulas(els) ==
    [k \in 1..Len(els) |->
        IF els[k].inside /\ els[k].math THEN [els[k] EXCEPT !.attrs = @ \cup {"data-tex"}]
        ELSE els[k]]

\* BaseExtractor.postProcess of TitleExtractor.ts
postProcessAttributes(els) == processMathFormulas(cleanAttributes(els))

\* ReadabilityPlus.preprocessContent: this.$('*')
preprocessContent(els) ==
    [k \in 1..Len(els) |-> [els[k] EXCEPT !.attrs = @ \cap keepAttributes]]

AttrInit ==
    /\ dom \in {[pc |-> "selected", ver |-> v, input |-> d, els |-> d] :
                   v \in AttributeVersions, d \in AttributeDocuments}
    /\ CoreIdle
    /\ IdleBut("dom")

PostProcessAttributes ==
    /\ dom.pc = "selected"
    /\ dom.ver = "TitleExtractor.ts"
    /\ dom' = [dom EXCEPT !.pc = "processed", !.els = postProcessAttributes(@)]
    /\ UNCHANGED core
    /\ Only("dom")

PreprocessContent ==
    /\ dom.pc = "selected"
    /\ dom.ver = "readability_plus.ts"
    /\ dom' = [dom EXCEPT !.pc = "processed", !.els = preprocessContent(@)]
    /\ UNCHANGED core
    /\ Only("dom")

AttrNext == PostProcessAttributes \/ PreprocessContent

SpecAttributes == AttrInit /\ [][AttrNext]_vars

AllowList ==
    {"src", "href", "alt", "title", "datetime", "width", "height", "loading", "rel",
     "target", "class", "id", "role", "aria-label", "itemprop"}

\* C26: after post-processing every attribute of every element of the
\* selected subtree has a name in the allow-list, and the elements outside
\* the subtree keep their attributes.
C26_AttributeAllowList ==
    dom.pc = "processed" =>
        \A k \in 1..Len(dom.els) :
            IF dom.els[k].inside THEN dom.els[k].attrs \subseteq AllowList
            ELSE dom.els[k].attrs = dom.input[k].attrs

\* cleanAttributes leaves the elements outside the subtree alone, and what
\* it leaves inside is in its own list, or is the data-tex added after it
C26_OwnList ==
    dom.pc = "processed" /\ dom.ver = "TitleExtractor.ts" =>
        \A k \in 1..Len(dom.els) :
            IF dom.els[k].inside THEN dom.els[k].attrs \subseteq KEEP_ATTRIBUTES \cup {"data-tex"}
            ELSE dom.els[k].attrs = dom.input[k].attrs

(***************************************************************************)
(* Links in post-processing.                                               *)
(*                                                                         *)
(* The <a> elements below the selected node, each with its href ("none":   *)
(* no attribute, "" empty, "http": an absolute http(s) URL, "relative"),   *)
(* its target and its rel ("none": no attribute).                          *)
(***************************************************************************)
MaxLinks == 2

LinkVersions == {"BaseExtractor.ts", "part_001", "normalizeHtml"}

Links ==
    [href : {"none", "", "http", "relative"},
     target : {"none", "_blank", "_self"},
     rel : {"none", "nofollow", "noopener noreferrer"}]

LinkLists == UNION {[1..n -> Links] : n \in 0..MaxLinks}

\* BaseExtractor.ts postProcess: only a link whose href starts with http
\* is touched
openInNewTab(link) ==
    IF link.href = "http"
    THEN [link EXCEPT !.target = "_blank", !.rel = "noopener noreferrer"]
    ELSE link

\* part_001 postProcess and normalizeHtml: an empty href is removed, rel is
\* set to noopener, and to noopener noreferrer when target is _blank
normalizeLink(link) ==
    [link EXCEPT !.href = IF @ = "" THEN "none" ELSE @,
                 !.rel = IF link.target = "_blank" THEN "noopener noreferrer"
                         ELSE "noopener"]

postProcessLinks(ver, links) ==
    [k \in 1..Len(links) |->
        IF ver = "BaseExtractor.ts" THEN openInNewTab(links[k]) ELSE normalizeLink(links[k])]

LinkInit ==
    /\ dom \in {[pc |-> "selected", ver |-> v, input |-> l, links |-> l] :
                   v \in LinkVersions, l \in LinkLists}
    /\ CoreIdle
    /\ IdleBut("dom")

PostProcessLinks ==
    /\ dom.pc = "selected"
    /\ dom' = [dom EXCEPT !.pc = "processed", !.links = postProcessLinks(dom.ver, @)]
    /\ UNCHANGED core
    /\ Only("dom")

SpecLinks == LinkInit /\ [][PostProcessLinks]_vars

BlankHasRel(links) ==
    \A k \in 1..Len(links) :
        links[k].target = "_blank" => links[k].rel = "noopener noreferrer"

\* C27: after post-processing every <a> of the content subtree whose target
\* is _blank carries rel="noopener noreferrer", whether the target was in
\* the input or set by the post-processor, whatever the href.
C27_BlankTargetRel == dom.pc = "processed" => BlankHasRel(dom.links)

\* the same for part_001's postProcess and for normalizeHtml
C27_RelRewritten ==
    dom.pc = "processed" /\ dom.ver # "BaseExtractor.ts" => BlankHasRel(dom.links)

(***************************************************************************)
(* The node score as a sum of parts.                                       *)
(*                                                                         *)
(* One element is scored by scoreElement of utils/extractor.ts or by       *)
(* calculateNodeScore of TitleExtractor.ts.  The elements are those of the *)
(* content selection: a tag, class tokens, text of their own, links and    *)
(* images.                                                                 *)
(***************************************************************************)
MaxScoreImgs == 1

ScoreFunctions == {"scoreElement", "calculateNodeScore"}

ScoreNodes ==
    {Element(tag, cls, text, links, imgs, <<>>, <<>>) :
        tag \in {"article", "div", "td", "span"},
        cls \in {<<>>, <<"content">>, <<"thread-content">>, <<"entry", "post">>},
        text \in {0, 150, 1000},
        links \in {<<>>, <<50>>},
        imgs \in 0..MaxScoreImgs}

\* the switch on the tag name in scoreElement
tagWeight(tag) ==
    CASE tag = "article" -> 30
      [] tag = "section" -> 25
      [] tag = "main" -> 20
      [] tag = "div" -> 5
      [] tag \in {"p", "pre", "blockquote", "ol", "ul"} -> 3
      [] tag = "td" -> 0 - 3
      [] tag = "form" -> 0 - 10
      [] tag = "li" -> 1
      [] OTHER -> 0

\* the six regular expressions scoreElement tests the class/id text with
classWeight(n) ==
    (IF TestClass(n, {"article", "content", "post", "text", "body"}) THEN 25 ELSE 0)
    + (IF TestClass(n, {"main", "primary"}) THEN 20 ELSE 0)
    + (IF TestClass(n, {"entry", "story", "blog"}) THEN 15 ELSE 0)
    - (IF TestClass(n, {"comment", "meta", "footer", "footnote"}) THEN 20 ELSE 0)
    - (IF TestClass(n, {"sidebar", "widget", "share", "social", "nav", "menu"}) THEN 15 ELSE 0)
    - (IF TestClass(n, {"advertisement", "banner", "ad-"}) THEN 30 ELSE 0)

\* the score as an exact fraction
scoreOf(fn, n) ==
    IF fn = "scoreElement" THEN scoreElement(n) ELSE Frac(calculateNodeScore(n), 1)

ScoreInit ==
    /\ dom \in {[pc |-> "found", fn |-> fn, node |-> n, score |-> Zero] :
                   fn \in ScoreFunctions, n \in ScoreNodes}
    /\ CoreIdle
    /\ IdleBut("dom")

ScoreElement ==
    /\ dom.pc = "found"
    /\ dom.fn = "scoreElement"
    /\ dom' = [dom EXCEPT !.pc = "scored", !.score = scoreElement(dom.node)]
    /\ UNCHANGED core
    /\ Only("dom")

CalculateNodeScore ==
    /\ dom.pc = "found"
    /\ dom.fn = "calculateNodeScore"
    /\ dom' = [dom EXCEPT !.pc = "scored", !.score = Frac(calculateNodeScore(dom.node), 1)]
    /\ UNCHANGED core
    /\ Only("dom")

ScoreNext ==
    \/ ScoreElement
    \/ CalculateNodeScore

SpecScore == ScoreInit /\ [][ScoreNext]_vars

\* the same content in an element whose tag and classes weigh nothing
Neutral(n) == [n EXCEPT !.tag = "span", !.cls = <<>>]

\* the part of the score that the content alone accounts for
contentScore(fn, n) == scoreOf(fn, Neutral(n))

\* linkText.length / text.length
LinkDensityOf(n) ==
    IF textChars(n) = 0 THEN Zero ELSE Frac(allLinkChars(n), textChars(n))

\* C28: score(node) = tagWeight(tag) + the sum of the class/id bucket
\* weights + contentScore(node), with the tag weights and bucket weights of
\* the specification; only the content part is attenuated by link density.
C28_ScoreSum ==
    dom.pc = "scored" =>
        FracEq(dom.score,
               FracAdd(Frac(tagWeight(dom.node.tag) + classWeight(dom.node), 1),
                       contentScore(dom.fn, dom.node)))

\* scoreElement on an element without link text is that sum
C28_NoLinks ==
    dom.pc = "scored" /\ dom.fn = "scoreElement" /\ dom.node.links = <<>> =>
        FracEq(dom.score,
               FracAdd(Frac(tagWeight(dom.node.tag) + classWeight(dom.node), 1),
                       contentScore(dom.fn, dom.node)))

\* scoreElement attenuates the tag and class weights with the length score
C28_Attenuated ==
    dom.pc = "scored" /\ dom.fn = "scoreElement" =>
        FracEq(dom.score,
               FracAdd(FracMul(Frac(tagWeight(dom.node.tag) + classWeight(dom.node), 1),
                               FracAdd(One, FracMul(Frac(0 - 1, 1), LinkDensityOf(dom.node)))),
                       contentScore(dom.fn, dom.node)))

(***************************************************************************)
(* The type-keyed factory and its cache.                                   *)
(*                                                                         *)
(* ExtractorFactory.extractors is a Map from type to instance, here the    *)
(* set of its <<type, instance>> entries.  An instance is the number of    *)
(* the construction that made it, so two instances are the same object     *)
(* exactly when the numbers are equal.  `returned` and `issued` record     *)
(* what the calls gave back: the instance each type last got since the     *)
(* cache was last cleared, and every instance ever handed out.             *)
(***************************************************************************)
MaxInstances == 4

\* WebsiteType, and a value outside it passed by an untyped caller
SupportedTypes == {"article", "forum", "weixin"}

RequestedTypes == SupportedTypes \cup {"video"}

\* Map.has / Map.get
Has(cache, type) == \E e \in cache : e[1] = type

Get(cache, type) == (CHOOSE e \in cache : e[1] = type)[2]

\* Map.set replaces the entry of the key
Set(cache, type, inst) == {e \in cache : e[1] # type} \cup {<<type, inst>>}

\* the switch of getExtractor: construct and cache an instance, or throw
construct(cache, made, type) ==
    IF type \in SupportedTypes
    THEN [cache |-> Set(cache, type, made + 1), made |-> made + 1,
          threw |-> FALSE, result |-> made + 1]
    ELSE [cache |-> cache, made |-> made, threw |-> TRUE, result |-> 0]

getExtractor(cache, made, type) ==
    IF Has(cache, type)
    THEN [cache |-> cache, made |-> made, threw |-> FALSE, result |-> Get(cache, type)]
    ELSE construct(cache, made, type)

\* this.extractors.clear()
clearCache(cache) == {}

NoCall ==
    [op |-> "none", type |-> "none", threw |-> FALSE, result |-> 0,
     previous |-> 0, issuedBefore |-> {}, cacheBefore |-> {}]

FactoryInit ==
    /\ dom = [pc |-> "loaded", cache |-> {}, made |-> 0,
              returned |-> [t \in SupportedTypes |-> 0], issued |-> {},
              last |-> NoCall]
    /\ CoreIdle
    /\ IdleBut("dom")

FactoryGetExtractor(type) ==
    LET r == getExtractor(dom.cache, dom.made, type) IN
    /\ r.made <= MaxInstances
    /\ dom' = [dom EXCEPT
                 !.cache = r.cache,
                 !.made = r.made,
                 !.returned = IF r.threw THEN @ ELSE [@ EXCEPT ![type] = r.result],
                 !.issued = IF r.threw THEN @ ELSE @ \cup {r.result},
                 !.last = [op |-> "getExtractor", type |-> type, threw |-> r.threw,
                           result |-> r.result,
                           previous |-> IF type \in SupportedTypes
                                        THEN dom.returned[type] ELSE 0,
                           issuedBefore |-> dom.issued,
                           cacheBefore |-> dom.cache]]
    /\ UNCHANGED core
    /\ Only("dom")

FactoryClearCache ==
    /\ dom' = [dom EXCEPT
                 !.cache = clearCache(@),
                 !.returned = [t \in SupportedTypes |-> 0],
                 !.last = [NoCall EXCEPT !.op = "clearCache",
                                         !.issuedBefore = dom.issued,
                                         !.cacheBefore = dom.cache]]
    /\ UNCHANGED core
    /\ Only("dom")

FactoryNext ==
    \/ \E type \in RequestedTypes : FactoryGetExtractor(type)
    \/ FactoryClearCache

SpecFactory == FactoryInit /\ [][FactoryNext]_vars

\* C29: after any sequence of getExtractor(type) and clearCache() calls the
\* cache holds at most one extractor per type; a getExtractor with a
\* supported type returns the instance the type got before if there was no
\* clearCache since, and a new instance if it is the first for the type
\* since the cache was cleared (or since the start); a call with an
\* unsupported type throws and leaves the cache unchanged.
C29_FactoryCache ==
    /\ \A e1, e2 \in dom.cache : e1[1] = e2[1] => e1 = e2
    /\ \A e \in dom.cache : e[1] \in SupportedTypes
    /\ dom.last.op = "getExtractor" =>
          /\ dom.last.type \in SupportedTypes =>
                /\ ~dom.last.threw
                /\ dom.last.previous # 0 => dom.last.result = dom.last.previous
                /\ dom.last.previous = 0 => dom.last.result \notin dom.last.issuedBefore
                /\ <<dom.last.type, dom.last.result>> \in dom.cache
          /\ dom.last.type \notin SupportedTypes =>
                /\ dom.last.threw
                /\ dom.cache = dom.last.cacheBefore
    /\ dom.last.op = "clearCache" => dom.cache = {}

\* a type is asked for again after a clearCache, a second type is cached,
\* and an unsupported type has just been refused with the cache filled
C29_Reached ==
    /\ dom.last.op = "getExtractor"
    /\ dom.last.threw
    /\ Cardinality(dom.cache) = 2
    /\ Cardinality(dom.issued) = 3
    /\ \E e \in dom.cache : e[2] = 3

\* a cached type has just been asked for again
C29_Repeated ==
    /\ dom.last.op = "getExtractor"
    /\ dom.last.previous # 0
    /\ dom.last.result = dom.last.previous

(***************************************************************************)
(* reorganizeContent on nested posts.                                      *)
(*                                                                         *)
(* The content is a sequence of elements in document order; an element     *)
(* has the index of its parent (0: a top-level node of the content) and    *)
(* its data-unique-id ("" without the attribute; the ids are distinct, as  *)
(* generateUniqueIds assigns them).  `wrapped` tells whether the content   *)
(* has one root element around them; find() only reaches descendants of    *)
(* the roots of $(content).                                                *)
(***************************************************************************)
MaxThread == 3

RECURSIVE AncestorsOf(_, _)
AncestorsOf(parent, k) ==
    IF parent[k] = 0 THEN {} ELSE {parent[k]} \cup AncestorsOf(parent, parent[k])

\* parent arrays of a forest written in document order
IsDocumentOrder(parent) ==
    \A k \in 1..Len(parent) :
        \/ parent[k] = 0
        \/ k > 1 /\ (parent[k] = k - 1 \/ parent[k] \in AncestorsOf(parent, k - 1))

ThreadContents ==
    UNION {
        {[wrapped |-> w,
          els |-> [k \in 1..n |-> [uid |-> IF ids[k] THEN ToString(k) ELSE "",
                                   parent |-> parent[k]]]] :
            w \in BOOLEAN,
            ids \in [1..n -> BOOLEAN],
            parent \in {p \in [1..n -> 0..n] : IsDocumentOrder(p)}} :
        n \in 0..MaxThread}

ParentsOf(content) == [k \in 1..Len(content.els) |-> content.els[k].parent]

\* the elements $content.find(...) can match: all below the wrapper, or
\* those that are not themselves roots of $(content)
Reached(content) ==
    {k \in 1..Len(content.els) : content.wrapped \/ content.els[k].parent # 0}

\* the ids in a clone of element r: its own and its descendants', in order
Clone(content, r) ==
    LET sub == SelectSeq([k \in 1..Len(content.els) |-> k],
                         LAMBDA k : k = r \/ r \in AncestorsOf(ParentsOf(content), k))
    IN  [i \in 1..Len(sub) |-> content.els[sub[i]].uid]

\* the clones of the reached elements that pass `test`, in document order
Clones(content, test(_)) ==
    LET hits == SelectSeq([k \in 1..Len(content.els) |-> k],
                          LAMBDA k : k \in Reached(content) /\ test(content.els[k].uid))
    IN  [i \in 1..Len(hits) |-> Clone(content, hits[i])]

MainClones(content, mainPostId) ==
    LET IsMain(uid) == uid = mainPostId IN Clones(content, IsMain)

ReplyClones(content, mainPostId) ==
    LET IsReply(uid) == uid # "" /\ uid # mainPostId IN Clones(content, IsReply)

\* reorganizeContent: div.forum-thread with the clones of the main post and
\* then div.forum-replies with the clones of every other element that
\* carries the attribute; the content itself when the id matches nothing
reorganizeThread(content, mainPostId) ==
    IF MainClones(content, mainPostId) = <<>>
    THEN [rebuilt |-> FALSE, content |-> content, main |-> <<>>, replies |-> <<>>]
    ELSE [rebuilt |-> TRUE, content |-> content,
          main |-> MainClones(content, mainPostId),
          replies |-> ReplyClones(content, mainPostId)]

ThreadInit ==
    /\ dom \in {[pc |-> "found", content |-> c, mainPostId |-> ToString(m),
                 out |-> [rebuilt |-> FALSE, content |-> c, main |-> <<>>,
                          replies |-> <<>>]] :
                   c \in ThreadContents, m \in 0..MaxThread}
    /\ CoreIdle
    /\ IdleBut("dom")

ReorganizeThread ==
    /\ dom.pc = "found"
    /\ dom' = [dom EXCEPT !.pc = "rebuilt",
                          !.out = reorganizeThread(dom.content, dom.mainPostId)]
    /\ UNCHANGED core
    /\ Only("dom")

SpecThread == ThreadInit /\ [][ReorganizeThread]_vars

RECURSIVE Flatten(_)
Flatten(clones) == IF clones = <<>> THEN <<>> ELSE Head(clones) \o Flatten(Tail(clones))

Occurrences(s, uid) == Cardinality({i \in 1..Len(s) : s[i] = uid})

ExactlyOnce(content, mainPostId, out) ==
    /\ Occurrences(Flatten(out.main), mainPostId) = 1
    /\ Occurrences(Flatten(out.replies), mainPostId) = 0
    /\ Head(Head(out.main)) = mainPostId
    /\ \A k \in 1..Len(content.els) :
          content.els[k].uid \notin {"", mainPostId} =>
              /\ Occurrences(Flatten(out.replies), content.els[k].uid) = 1
              /\ Occurrences(Flatten(out.main), content.els[k].uid) = 0

MatchesSome(content, mainPostId) ==
    \E k \in Reached(content) : content.els[k].uid = mainPostId

\* C30: reorganizeContent neither loses nor duplicates posts: every element
\* of the input that carries a unique id appears exactly once in the
\* rebuilt output, the main post first and every other one under
\* forum-replies, also when such elements are nested; when the main-post id
\* matches no element the content is returned unchanged.
C30_NoLossNoDuplicate ==
    dom.pc = "rebuilt" =>
        IF MatchesSome(dom.content, dom.mainPostId)
        THEN dom.out.rebuilt /\ ExactlyOnce(dom.content, dom.mainPostId, dom.out)
        ELSE ~dom.out.rebuilt /\ dom.out.content = dom.content

\* the same for sibling posts below one wrapper
C30_Siblings ==
    /\ dom.pc = "rebuilt"
    /\ dom.content.wrapped
    /\ \A k \in 1..Len(dom.content.els) : dom.content.els[k].parent = 0
    => IF MatchesSome(dom.content, dom.mainPostId)
       THEN dom.out.rebuilt /\ ExactlyOnce(dom.content, dom.mainPostId, dom.out)
       ELSE ~dom.out.rebuilt /\ dom.out.content = dom.content
====
